---- MODULE Spec2Model ----
(***************************************************************************)
(* A model of the qri repository core: the Namestore, the content-         *)
(* addressed store, the DatasetRequests handlers (InitDataset, Update,     *)
(* Rename, Delete, AddDataset) and HistoryRequests.Log.                    *)
(*                                                                         *)
(* Handlers are sequences of steps, one step per access to the shared      *)
(* repository, so that the same definitions describe a single caller       *)
(* (Spec), two concurrent callers (SpecConc) and a caller that builds a     *)
(* history and walks it (SpecLog).                                         *)
(***************************************************************************)
EXTENDS Integers, Sequences, FiniteSets, TLC

\* ------------------------------------------------------------------------
\* Bounds
\* ------------------------------------------------------------------------
\* number of readings of the clock, hence of dataset records created locally
MaxClock == 1
\* number of revisions a history grows by, hence of local content hashes
MaxRevs == 3
\* largest Limit passed to Log
MaxLimit == 5

\* ------------------------------------------------------------------------
\* Names: strings are sequences of one-character strings
\* ------------------------------------------------------------------------
Letters == {"a", "b"}
Digits == {"0"}
Underscore == "_"
Slash == "/"
Dot == "."

EmptyName == << >>
NameA == <<"a">>
NameB == <<"b">>
\* the names callers supply: none, two valid names, one starting with a digit
NameInputs == {EmptyName, NameA, NameB, <<"0">>}
\* the names callers look up
BoundInputs == {EmptyName, NameA, NameB}
NameC == <<"b", "a">>
\* the new names Rename is given: those, and a third valid name
RenameInputs == NameInputs \cup {NameC}

\* validate.ValidName: [A-Za-z_][A-Za-z0-9_]*
ValidName(n) ==
    /\ Len(n) > 0
    /\ n[1] \in Letters \cup {Underscore}
    /\ \A i \in 1..Len(n) : n[i] \in Letters \cup Digits \cup {Underscore}

\* strings.Trim(s, "/")
RECURSIVE TrimLeft(_)
TrimLeft(s) == IF Len(s) > 0 /\ s[1] = Slash THEN TrimLeft(Tail(s)) ELSE s
RECURSIVE TrimRight(_)
TrimRight(s) ==
    IF Len(s) > 0 /\ s[Len(s)] = Slash THEN TrimRight(SubSeq(s, 1, Len(s) - 1)) ELSE s
TrimSlashes(s) == TrimRight(TrimLeft(s))

\* ------------------------------------------------------------------------
\* Errors
\* ------------------------------------------------------------------------
NoErr == "ok"
ErrNotFound == "repo: not found"
ErrNameTaken == "repo: name already in use"
ErrInvalidName == "invalid name"
ErrIO == "i/o error"
ErrInvalidDataset == "invalid dataset"

\* ------------------------------------------------------------------------
\* Content paths.  A path is a content hash, with or without the trailing
\* package file ("/dataset.json").  Hash 0 is the empty key.
\* ------------------------------------------------------------------------
Hashes == 1..MaxRevs            \* the hashes of the records saved locally
RemoteHash == MaxRevs + 1       \* a dataset that exists on the network only
MissingHash == MaxRevs + 2      \* a hash no store knows
TestHash == MaxRevs + 3         \* the dataset of the test repository
AllHashes == 1..(MaxRevs + 3)

MkPath(h, f) == [hash |-> h, file |-> f]
EmptyPath == MkPath(0, FALSE)

\* strings.TrimSuffix(path, "/" + dsfs.PackageFileDataset)
TrimPackageFile(p) == MkPath(p.hash, FALSE)
\* strings.HasSuffix(path, dsfs.PackageFileDataset)
HasPackageFile(p) == p.file

\* ------------------------------------------------------------------------
\* Dataset records and the content-addressed store
\* ------------------------------------------------------------------------
NoData == << >>
NoRecord == [Previous |-> EmptyPath, Data |-> NoData, Length |-> -1, Timestamp |-> -1]
MkDataset(prev, data, len, ts) ==
    [Previous |-> prev, Data |-> data, Length |-> len, Timestamp |-> ts]

\* the record found on the network under RemoteHash
RemoteDataset == MkDataset(EmptyPath, <<1, 9>>, 1, 0)

\* the path a store hands out for a saved dataset: the ipfs store addresses
\* the package file inside the dataset's directory, the map store the hash
SavedPath(kind, h) == MkPath(h, kind = "ipfs")

\* dsfs.LoadDataset(store, path): the record at the path's hash; the package
\* file suffix is normalised away
LoadDataset(st, p) ==
    IF p.hash \in DOMAIN st /\ st[p.hash] # NoRecord
    THEN [err |-> NoErr, ds |-> st[p.hash]]
    ELSE [err |-> ErrNotFound, ds |-> NoRecord]

\* the hash of a record: the hash already holding the same content, or else
\* the first unused one
HashOf(st, ds) ==
    IF \E h \in DOMAIN st : st[h] = ds
    THEN CHOOSE h \in DOMAIN st : st[h] = ds
    ELSE CHOOSE h \in Hashes : st[h] = NoRecord /\ \A g \in Hashes : st[g] = NoRecord => h <= g

\* dsfs.SaveDataset(store, ds, pin): writes the record under its content hash
SaveDataset(st, kind, ds) ==
    LET h == HashOf(st, ds)
    IN [store |-> [st EXCEPT ![h] = ds], path |-> SavedPath(kind, h), hash |-> h]

\* the key the store derives from a data file's content
KeyOf(content) == <<Len(content)>> \o content
\* the content a data key addresses
ContentOf(key) == Tail(key)

\* store.Put(file, pin) of a data file: the file is stored under its key
StorePut(bl, content) == [blobs |-> bl \cup {content}, key |-> KeyOf(content)]

\* ioutil.ReadAll(reader): everything left in the reader, which is then empty
ReadAll(reader) == [data |-> reader, rest |-> << >>]

\* the outcomes of an access to the store or the filesystem
IOOutcomes == {NoErr, ErrIO}

\* Datasets.GetDataset(path): the record kept under the path, else the one
\* the store holds at it
GetDataset(dss, st, p) ==
    IF \E e \in dss : e[1] = p
    THEN [err |-> NoErr, ds |-> (CHOOSE e \in dss : e[1] = p)[2]]
    ELSE LoadDataset(st, p)

\* Datasets.PutDataset(path, ds)
PutDataset(dss, p, ds) == {e \in dss : e[1] # p} \cup {<<p, ds>>}

\* ------------------------------------------------------------------------
\* Namestore: a set of <<name, path>> bindings
\* ------------------------------------------------------------------------
Bound(ns, name) == \E b \in ns : b[1] = name
PathsOf(ns, name) == {b[2] : b \in {x \in ns : x[1] = name}}
NamesOf(ns, path) == {b[1] : b \in {x \in ns : x[2] = path}}

\* PutName that replaces nothing but binds a taken name a second time
PutNameTaken(ns, name, path) ==
    IF ~ValidName(name) THEN [err |-> ErrInvalidName, ns |-> ns]
    ELSE [err |-> NoErr, ns |-> ns \cup {<<name, path>>}]

\* PutName that binds the name to the path without the package file
PutNameOtherPath(ns, name, path) ==
    IF ~ValidName(name) THEN [err |-> ErrInvalidName, ns |-> ns]
    ELSE IF Bound(ns, name) THEN [err |-> ErrNameTaken, ns |-> ns]
    ELSE [err |-> NoErr, ns |-> ns \cup {<<name, MkPath(path.hash, ~path.file)>>}]

\* PutName(name, path): fails if name is invalid or already bound
PutName(ns, name, path) ==
    IF ~ValidName(name) THEN [err |-> ErrInvalidName, ns |-> ns]
    ELSE IF Bound(ns, name) THEN [err |-> ErrNameTaken, ns |-> ns]
    ELSE [err |-> NoErr, ns |-> ns \cup {<<name, path>>}]

\* GetPath(name): exact-match lookup
GetPath(ns, name) ==
    IF Bound(ns, name)
    THEN [err |-> NoErr, path |-> CHOOSE p \in PathsOf(ns, name) : TRUE]
    ELSE [err |-> ErrNotFound, path |-> EmptyPath]

\* GetName(path): exact-match lookup, the empty name when no name is bound
\* to the path.  When several names are bound to it, any of them may be
\* returned; the set of possible results:
GetName(ns, path) ==
    IF NamesOf(ns, path) = {} THEN {EmptyName} ELSE NamesOf(ns, path)

\* DeleteName(name): removes a binding.  On an absent name it is either a
\* no-op or a not-found error; the set of possible results:
DeleteName(ns, name) ==
    IF Bound(ns, name)
    THEN {[err |-> NoErr, ns |-> {b \in ns : b[1] # name}]}
    ELSE {[err |-> NoErr, ns |-> ns], [err |-> ErrNotFound, ns |-> ns]}

\* ------------------------------------------------------------------------
\* State
\* ------------------------------------------------------------------------
Threads == {1, 2}

VARIABLES
    storeKind,  \* "mem" (map store) or "ipfs" (pinning, network fetch)
    names,      \* the Namestore
    store,      \* dataset records of the content-addressed store, by hash
    blobs,      \* data files of the content-addressed store, by content
    datasets,   \* the repository's Datasets store: a set of paths
    pinned,     \* hashes pinned in the store
    now,        \* the clock
    pc,         \* per thread: the step it is at
    args,       \* per thread: the parameters of the call in progress
    loc,        \* per thread: the handler's local variables
    ret,        \* per thread: the error and the output of the last call
    pre,        \* per thread: the Namestore when the call started
    fsrepo      \* the file-based repository: its profile file, its graph

vars == <<storeKind, names, store, blobs, datasets, pinned, now, pc, args, loc, ret, pre,
          fsrepo>>
repoVars == <<storeKind, names, store, blobs, datasets, pinned, now, fsrepo>>

NoRef == [Name |-> EmptyName, Path |-> EmptyPath, Dataset |-> NoRecord]
MkRef(n, p, ds) == [Name |-> n, Path |-> p, Dataset |-> ds]

\* no profile file; a repository whose graph is nil and was never computed
NoProfile == [file |-> "none", ID |-> "", Username |-> ""]
NoGraph == 0
NoFsRepo == [profile |-> NoProfile, graph |-> NoGraph, computed |-> 0]

NoArgs == [op |-> "none", name |-> EmptyName, new |-> EmptyName, path |-> EmptyPath,
           byName |-> FALSE, data |-> NoData, src |-> "none", fname |-> EmptyName,
           valid |-> TRUE, limit |-> 0, offset |-> 0,
           kind |-> "none", repo |-> FALSE, cli |-> FALSE,
           page |-> 0, pageSize |-> 0, id |-> ""]
NoLoc == [name |-> EmptyName, path |-> EmptyPath, ds |-> NoRecord, key |-> NoData,
          log |-> << >>, limit |-> 0, nodes |-> NoGraph]
NoHandler == [kind |-> "none", repo |-> FALSE, cli |-> FALSE]
NoPage == [number |-> 0, size |-> 0]
NoListParams == [Limit |-> 0, Offset |-> 0]
NoRet == [err |-> NoErr, ref |-> NoRef, ok |-> FALSE, assigned |-> FALSE, log |-> << >>,
          handler |-> NoHandler, wire |-> << >>, list |-> << >>, page |-> NoPage,
          params |-> NoListParams, loads |-> << >>, peers |-> << >>, graph |-> NoGraph,
          coerced |-> << >>]

\* the data file and the record NewTestRepo saves
TestData == <<1>>
TestDataset == MkDataset(EmptyPath, KeyOf(TestData), Len(TestData), 0)

\* an empty repository on an ipfs store, or the test repository: a map store
\* holding a pinned data file and the dataset saved for it, bound to a name
Init ==
    /\ storeKind \in {"mem", "ipfs"}
    /\ IF storeKind = "mem"
       THEN /\ blobs = {TestData}
            /\ store = [h \in AllHashes |-> IF h = TestHash THEN TestDataset ELSE NoRecord]
            /\ pinned = {TestHash}
            /\ names = PutName({}, NameA, SavedPath("mem", TestHash)).ns
       ELSE /\ blobs = {}
            /\ store = [h \in AllHashes |-> NoRecord]
            /\ pinned = {}
            /\ names = {}
    /\ datasets = {}
    /\ fsrepo = NoFsRepo
    /\ now = 0
    /\ pc = [t \in Threads |-> "idle"]
    /\ args = [t \in Threads |-> NoArgs]
    /\ loc = [t \in Threads |-> NoLoc]
    /\ ret = [t \in Threads |-> NoRet]
    /\ pre = [t \in Threads |-> {}]

\* a call starts with parameters a; the handler's first step runs with it
Begin(t, a) ==
    /\ pc[t] = "idle"
    /\ args' = [args EXCEPT ![t] = a]
    /\ pre' = [pre EXCEPT ![t] = names]

\* a call returns an error: the output stays unassigned
Fail(t, e) ==
    /\ pc' = [pc EXCEPT ![t] = "done"]
    /\ ret' = [ret EXCEPT ![t] = [NoRet EXCEPT !.err = e]]
    /\ loc' = [loc EXCEPT ![t] = NoLoc]

\* a call returns nil after assigning its output
Return(t, ref) ==
    /\ pc' = [pc EXCEPT ![t] = "done"]
    /\ ret' = [ret EXCEPT ![t] = [NoRet EXCEPT !.ref = ref, !.assigned = TRUE]]
    /\ loc' = [loc EXCEPT ![t] = NoLoc]

Goto(t, label) == pc' = [pc EXCEPT ![t] = label]

\* the caller is ready for its next call
Finish(t) ==
    /\ pc[t] = "done"
    /\ pc' = [pc EXCEPT ![t] = "idle"]
    /\ args' = [args EXCEPT ![t] = NoArgs]
    /\ ret' = [ret EXCEPT ![t] = NoRet]
    /\ pre' = [pre EXCEPT ![t] = {}]
    /\ loc' = [loc EXCEPT ![t] = NoLoc]
    /\ UNCHANGED repoVars

\* calls that will still read the clock
Creating == {t \in Threads : pc[t] \in {"up_getprev", "up_data", "up_save",
                                        "in_putdata", "in_haspath", "in_save"}}
CanCreate == now + Cardinality(Creating) < MaxClock

\* ------------------------------------------------------------------------
\* Direct Namestore calls
\* ------------------------------------------------------------------------
\* the paths a caller knows: the saved datasets, and one unknown path
StoredPaths == {SavedPath(storeKind, h) : h \in {g \in AllHashes : store[g] # NoRecord}}
PathInputs == StoredPaths \cup {SavedPath(storeKind, MissingHash)}

DoPutName(t, a) ==
    /\ Begin(t, a)
    /\ LET r == PutName(names, a.name, a.path)
       IN /\ names' = r.ns
          /\ pc' = [pc EXCEPT ![t] = "done"]
          /\ ret' = [ret EXCEPT ![t] = [NoRet EXCEPT !.err = r.err]]
    /\ UNCHANGED <<fsrepo, storeKind, store, blobs, datasets, pinned, now, loc>>

CallPutName(t) ==
    \E n \in NameInputs, p \in StoredPaths :
        DoPutName(t, [NoArgs EXCEPT !.op = "PutName", !.name = n, !.path = p])

DoDeleteName(t, a) ==
    /\ Begin(t, a)
    /\ \E r \in DeleteName(names, a.name) :
          /\ names' = r.ns
          /\ pc' = [pc EXCEPT ![t] = "done"]
          /\ ret' = [ret EXCEPT ![t] = [NoRet EXCEPT !.err = r.err]]
    /\ UNCHANGED <<fsrepo, storeKind, store, blobs, datasets, pinned, now, loc>>

CallDeleteName(t) ==
    \E n \in BoundInputs :
        DoDeleteName(t, [NoArgs EXCEPT !.op = "DeleteName", !.name = n])

\* ------------------------------------------------------------------------
\* DatasetRequests.Rename
\* ------------------------------------------------------------------------

\* RenameCheck without the look-up of the new name
RenameCheckNoLookup(t, a) ==
    /\ Begin(t, a)
    /\ IF a.name = EmptyName
       THEN Fail(t, "current name is required to rename a dataset")
       ELSE IF ~ValidName(a.new)
       THEN Fail(t, ErrInvalidName)
       ELSE Goto(t, "rn_getpath") /\ UNCHANGED <<ret, loc>>
    /\ UNCHANGED repoVars

\* current name required, new name valid, new name not yet bound
RenameCheck(t, a) ==
    /\ Begin(t, a)
    /\ IF a.name = EmptyName
       THEN Fail(t, "current name is required to rename a dataset")
       ELSE IF ~ValidName(a.new)
       THEN Fail(t, ErrInvalidName)
       ELSE IF GetPath(names, a.new).err # ErrNotFound
       THEN Fail(t, "name already exists")
       ELSE Goto(t, "rn_getpath") /\ UNCHANGED <<ret, loc>>
    /\ UNCHANGED repoVars

CallRename(t) ==
    \E cur \in BoundInputs, new \in RenameInputs :
        RenameCheck(t, [NoArgs EXCEPT !.op = "Rename", !.name = cur, !.new = new])

\* path, err := r.repo.GetPath(p.Current)
RenameGetPath(t) ==
    /\ pc[t] = "rn_getpath"
    /\ LET g == GetPath(names, args[t].name)
       IN IF g.err # NoErr
          THEN Fail(t, "error getting dataset")
          ELSE /\ Goto(t, "rn_delete")
               /\ loc' = [loc EXCEPT ![t].path = g.path]
               /\ UNCHANGED ret
    /\ UNCHANGED <<repoVars, args, pre>>

\* RenameDelete that leaves the old binding in place
RenameDeleteSkip(t) ==
    /\ pc[t] = "rn_delete"
    /\ Goto(t, "rn_put")
    /\ UNCHANGED <<repoVars, args, ret, loc, pre>>

\* r.repo.DeleteName(p.Current)
RenameDelete(t) ==
    /\ pc[t] = "rn_delete"
    /\ \E d \in DeleteName(names, args[t].name) :
          /\ names' = d.ns
          /\ IF d.err # NoErr
             THEN Fail(t, d.err)
             ELSE Goto(t, "rn_put") /\ UNCHANGED <<ret, loc>>
    /\ UNCHANGED <<fsrepo, storeKind, store, blobs, datasets, pinned, now, args, pre>>

\* r.repo.PutName(p.New, path)
RenamePut(t) ==
    /\ pc[t] = "rn_put"
    /\ LET r == PutName(names, args[t].new, loc[t].path)
       IN /\ names' = r.ns
          /\ IF r.err # NoErr
             THEN Fail(t, r.err)
             ELSE Goto(t, "rn_load") /\ UNCHANGED <<ret, loc>>
    /\ UNCHANGED <<fsrepo, storeKind, store, blobs, datasets, pinned, now, args, pre>>

\* ds, err := dsfs.LoadDataset(store, path); *res = DatasetRef{New, path, ds}
RenameLoad(t) ==
    /\ pc[t] = "rn_load"
    /\ \E io \in IOOutcomes :
          LET l == LoadDataset(store, loc[t].path)
          IN IF io # NoErr \/ l.err # NoErr
             THEN Fail(t, IF io # NoErr THEN io ELSE l.err)
             ELSE Return(t, MkRef(args[t].new, loc[t].path, l.ds))
    /\ UNCHANGED <<repoVars, args, pre>>

Rename(t) ==
    \/ RenameGetPath(t)
    \/ RenameDelete(t)
    \/ RenamePut(t)
    \/ RenameLoad(t)

\* ------------------------------------------------------------------------
\* DatasetRequests.Update
\* ------------------------------------------------------------------------
\* the references a caller puts in Changes.Previous: a name, as typed or as
\* the key built from it ("/a"), or a path, with or without the package file
NameRefInputs == {NameA, <<Slash>> \o NameA, NameB}
PathRefInputs == PathInputs \cup {TrimPackageFile(p) : p \in PathInputs}
\* the data streams a caller supplies
DataInputs == {<<2>>}

\* dsfs.RefType(p.Changes.Previous.String())
RefType(a) ==
    IF a.byName THEN [rt |-> "name", name |-> a.name, path |-> EmptyPath]
    ELSE [rt |-> "path", name |-> EmptyName, path |-> a.path]

\* the name and the path of the previous revision
UpdateResolve(t, a) ==
    /\ Begin(t, a)
    /\ LET r == RefType(a)
       IN IF r.rt = "name"
          THEN LET g == GetPath(names, TrimSlashes(r.name))
               IN IF g.err # NoErr
                  THEN Fail(t, "error getting previous dataset path")
                  ELSE /\ Goto(t, "up_getprev")
                       /\ loc' = [loc EXCEPT ![t].name = r.name, ![t].path = g.path]
                       /\ UNCHANGED ret
          ELSE \E n \in GetName(names, r.path) :
                  /\ Goto(t, "up_getprev")
                  /\ loc' = [loc EXCEPT ![t].name = n, ![t].path = r.path]
                  /\ UNCHANGED ret
    /\ UNCHANGED repoVars

CallUpdate(t) ==
    /\ CanCreate
    /\ \E src \in {"none", "data"}, d \in DataInputs, v \in BOOLEAN, byName \in BOOLEAN :
        \* an invalid change set comes without data
        /\ ~v => src = "none"
        /\ \E n \in (IF byName THEN NameRefInputs ELSE {EmptyName}),
              q \in (IF byName THEN {EmptyPath} ELSE PathRefInputs) :
              UpdateResolve(t, [NoArgs EXCEPT !.op = "Update", !.byName = byName,
                                      !.name = n, !.path = q, !.src = src, !.valid = v,
                                      !.data = IF src = "data" THEN d ELSE NoData])

\* prev, err := r.repo.GetDataset(prevpath); ds.Assign(prev, p.Changes)
UpdateGetPrev(t) ==
    /\ pc[t] = "up_getprev"
    /\ \E io \in IOOutcomes :
          LET g == GetDataset(datasets, store, loc[t].path)
          IN IF io # NoErr \/ g.err # NoErr
             THEN Fail(t, "error getting previous dataset")
             ELSE /\ Goto(t, "up_data")
                  /\ loc' = [loc EXCEPT ![t].ds = g.ds]
                  /\ UNCHANGED ret
    /\ UNCHANGED <<repoVars, args, pre>>

\* the bytes the store receives for the new data file: p.Data has been read
\* to its end by ioutil.ReadAll when the file is built from it
UpdateDataFile(reader) == ReadAll(ReadAll(reader).rest).data

\* store file if one is provided
UpdateData(t) ==
    /\ pc[t] = "up_data"
    /\ IF args[t].src = "data"
       THEN LET data == ReadAll(args[t].data).data
                put == StorePut(blobs, UpdateDataFile(args[t].data))
            IN /\ blobs' = put.blobs
               /\ loc' = [loc EXCEPT ![t].ds.Data = put.key, ![t].ds.Length = Len(data)]
       ELSE UNCHANGED <<blobs, loc>>
    /\ Goto(t, "up_save")
    /\ UNCHANGED <<fsrepo, storeKind, names, store, datasets, pinned, now, args, ret, pre>>

\* ds.Previous left as the caller's reference, package file included
UpdatePreviousKeep(prevpath) == prevpath

\* ds.Previous left empty
UpdatePreviousNone(prevpath) == EmptyPath

\* ds.Previous: prevpath without the package file
UpdatePrevious(prevpath) ==
    IF HasPackageFile(prevpath) THEN TrimPackageFile(prevpath) ELSE prevpath

\* validate, stamp, save; with no name the call returns here
UpdateSave(t) ==
    /\ pc[t] = "up_save"
    /\ IF ~args[t].valid
       THEN Fail(t, ErrInvalidDataset) /\ UNCHANGED <<store, pinned, now>>
       ELSE LET ds == [loc[t].ds EXCEPT !.Previous = UpdatePrevious(loc[t].path),
                                        !.Timestamp = now]
                sv == SaveDataset(store, storeKind, ds)
            IN /\ now' = now + 1
               /\ store' = sv.store
               /\ pinned' = pinned \cup {sv.hash}
               /\ IF loc[t].name # EmptyName
                  THEN /\ Goto(t, "up_delete")
                       /\ loc' = [loc EXCEPT ![t].ds = ds, ![t].path = sv.path]
                       /\ UNCHANGED ret
                  ELSE Return(t, MkRef(loc[t].name, sv.path, ds))
    /\ UNCHANGED <<fsrepo, storeKind, names, blobs, datasets, args, pre>>

\* r.repo.DeleteName(name)
UpdateDelete(t) ==
    /\ pc[t] = "up_delete"
    /\ \E d \in DeleteName(names, loc[t].name) :
          /\ names' = d.ns
          /\ IF d.err # NoErr
             THEN Fail(t, d.err)
             ELSE Goto(t, "up_put") /\ UNCHANGED <<ret, loc>>
    /\ UNCHANGED <<fsrepo, storeKind, store, blobs, datasets, pinned, now, args, pre>>

\* r.repo.PutName(name, dspath); *res = DatasetRef{name, dspath, ds}
UpdatePut(t) ==
    /\ pc[t] = "up_put"
    /\ LET r == PutName(names, loc[t].name, loc[t].path)
       IN /\ names' = r.ns
          /\ IF r.err # NoErr
             THEN Fail(t, r.err)
             ELSE Return(t, MkRef(loc[t].name, loc[t].path, loc[t].ds))
    /\ UNCHANGED <<fsrepo, storeKind, store, blobs, datasets, pinned, now, args, pre>>

Update(t) ==
    \/ UpdateGetPrev(t)
    \/ UpdateData(t)
    \/ UpdateSave(t)
    \/ UpdateDelete(t)
    \/ UpdatePut(t)

\* ------------------------------------------------------------------------
\* DatasetRequests.InitDataset
\* ------------------------------------------------------------------------
\* file names: none, one without an extension, one with an extension
FilenameInputs == {EmptyName, NameB, NameB \o <<Dot, "c">>}
\* payloads: two well-formed ones and one for each validation failure
PayloadInputs == {<<1>>, <<2>>, <<3>>, <<4>>, <<5>>}
PayloadKind(d) ==
    CASE d = <<3>> -> "malformed"
      [] d = <<4>> -> "noschema"
      [] d = <<5>> -> "dupfields"
      [] OTHER -> "wellformed"

\* the part of a file name before its extension
RECURSIVE Stem(_)
Stem(f) == IF Len(f) = 0 \/ f[1] = Dot THEN << >> ELSE <<f[1]>> \o Stem(Tail(f))
\* detect.ExtensionDataFormat(filename) fails without an extension
HasExtension(f) == \E i \in 1..Len(f) : f[i] = Dot /\ i < Len(f)
\* detect.Camelize(filename): the default name of a dataset
Camelize(f) == Stem(f)

\* the checks with the format detection ahead of the name check
InitValidateExtFirst(a, fetched) ==
    IF a.src = "none" THEN "either a file or a url is required to create a dataset"
    ELSE IF a.src = "url" /\ ~fetched THEN "error fetching url"
    ELSE IF ~HasExtension(a.fname) THEN "error detecting format extension"
    ELSE IF a.name # EmptyName /\ ~ValidName(a.name) THEN ErrInvalidName
    ELSE IF PayloadKind(a.data) = "malformed" THEN "invalid data format"
    ELSE IF PayloadKind(a.data) = "noschema" THEN "error determining dataset schema"
    ELSE IF PayloadKind(a.data) = "dupfields" THEN "invalid structure"
    ELSE NoErr

\* the first failing stage of the checks made before anything is written
InitValidate(a, fetched) ==
    IF a.src = "none" THEN "either a file or a url is required to create a dataset"
    ELSE IF a.src = "url" /\ ~fetched THEN "error fetching url"
    ELSE IF a.name # EmptyName /\ ~ValidName(a.name) THEN ErrInvalidName
    ELSE IF ~HasExtension(a.fname) THEN "error detecting format extension"
    ELSE IF PayloadKind(a.data) = "malformed" THEN "invalid data format"
    ELSE IF PayloadKind(a.data) = "noschema" THEN "error determining dataset schema"
    ELSE IF PayloadKind(a.data) = "dupfields" THEN "invalid structure"
    ELSE NoErr

InitSource(t, a) ==
    /\ Begin(t, a)
    /\ \E fetched \in BOOLEAN :
          LET e == InitValidate(a, fetched)
          IN IF e # NoErr THEN Fail(t, e)
             ELSE Goto(t, "in_putdata") /\ UNCHANGED <<ret, loc>>
    /\ UNCHANGED repoVars

CallInitDataset(t) ==
    /\ CanCreate
    /\ \E n \in NameInputs, f \in FilenameInputs, src \in {"none", "data", "url"},
          d \in PayloadInputs :
        \* one call without a source, one download
        /\ src = "none" => (d = <<1>> /\ f = EmptyName)
        /\ src = "url" => (d = <<1>> /\ HasExtension(f))
        /\ InitSource(t, [NoArgs EXCEPT !.op = "InitDataset", !.name = n, !.fname = f,
                                   !.src = src,
                                   !.data = IF src = "none" THEN NoData ELSE d])

\* datakey, err := store.Put(data file, false)
InitPutData(t) ==
    /\ pc[t] = "in_putdata"
    /\ LET put == StorePut(blobs, args[t].data)
       IN /\ blobs' = put.blobs
          /\ loc' = [loc EXCEPT ![t].key = put.key]
    /\ Goto(t, "in_haspath")
    /\ UNCHANGED <<fsrepo, storeKind, names, store, datasets, pinned, now, args, ret, pre>>

\* repo.HasPath(repo, key): some named dataset holds the key
HasPath(ns, st, key) ==
    \E b \in ns : LoadDataset(st, b[2]).err = NoErr /\ LoadDataset(st, b[2]).ds.Data = key

\* a guard that lets every payload through
InitHasPathSkip(t) ==
    /\ pc[t] = "in_haspath"
    /\ Goto(t, "in_save")
    /\ UNCHANGED <<repoVars, args, pre, ret, loc>>

InitHasPath(t) ==
    /\ pc[t] = "in_haspath"
    /\ IF HasPath(names, store, loc[t].key)
       THEN Fail(t, "this data already exists")
       ELSE Goto(t, "in_save") /\ UNCHANGED <<ret, loc>>
    /\ UNCHANGED <<repoVars, args, pre>>

\* name := p.Name, or the name derived from the file name
InitName(a) ==
    IF a.name = EmptyName /\ a.fname # EmptyName THEN Camelize(a.fname) ELSE a.name

\* assemble the record (no metadata stream is supplied, so the record is
\* valid), stamp it, save it
InitSave(t) ==
    /\ pc[t] = "in_save"
    /\ now' = now + 1
    /\ LET ds == MkDataset(EmptyPath, loc[t].key, 0, now)
           sv == SaveDataset(store, storeKind, ds)
       IN /\ store' = sv.store
          /\ pinned' = pinned \cup {sv.hash}
          /\ Goto(t, "in_putds")
          /\ loc' = [loc EXCEPT ![t].name = InitName(args[t]), ![t].ds = ds,
                                ![t].path = sv.path]
          /\ UNCHANGED ret
    /\ UNCHANGED <<fsrepo, storeKind, names, blobs, datasets, args, pre>>

\* r.repo.PutDataset(dskey, ds)
InitPutDataset(t) ==
    /\ pc[t] = "in_putds"
    /\ datasets' = PutDataset(datasets, loc[t].path, loc[t].ds)
    /\ Goto(t, "in_putname")
    /\ UNCHANGED <<fsrepo, storeKind, names, store, blobs, pinned, now, args, loc, ret, pre>>

\* r.repo.PutName(name, dskey)
InitPutName(t) ==
    /\ pc[t] = "in_putname"
    /\ LET r == PutName(names, loc[t].name, loc[t].path)
       IN /\ names' = r.ns
          /\ IF r.err # NoErr
             THEN Fail(t, "error adding dataset name to repo")
             ELSE Goto(t, "in_get") /\ UNCHANGED <<ret, loc>>
    /\ UNCHANGED <<fsrepo, storeKind, store, blobs, datasets, pinned, now, args, pre>>

\* the Name of the DatasetRef InitDataset returns
InitRefName(a, name) == a.name

\* ds, err = r.repo.GetDataset(dskey); *res = DatasetRef{p.Name, dskey, ds}
InitGet(t) ==
    /\ pc[t] = "in_get"
    /\ \E io \in IOOutcomes :
          LET g == GetDataset(datasets, store, loc[t].path)
          IN IF io # NoErr \/ g.err # NoErr
             THEN Fail(t, "error reading dataset")
             ELSE Return(t, MkRef(InitRefName(args[t], loc[t].name), loc[t].path, g.ds))
    /\ UNCHANGED <<repoVars, args, pre>>

InitDataset(t) ==
    \/ InitPutData(t)
    \/ InitHasPath(t)
    \/ InitSave(t)
    \/ InitPutDataset(t)
    \/ InitPutName(t)
    \/ InitGet(t)

\* ------------------------------------------------------------------------
\* DatasetRequests.Delete
\* ------------------------------------------------------------------------

\* name or path required; a missing path is resolved from the name
DeleteCheck(t, a) ==
    /\ Begin(t, a)
    /\ IF a.name = EmptyName /\ a.path = EmptyPath
       THEN Fail(t, "either name or path is required")
       ELSE IF a.path = EmptyPath
       THEN LET g == GetPath(names, a.name)
            IN IF g.err # NoErr
               THEN Fail(t, g.err)
               ELSE /\ Goto(t, "dl_getname")
                    /\ loc' = [loc EXCEPT ![t].path = g.path]
                    /\ UNCHANGED ret
       ELSE /\ Goto(t, "dl_getname")
            /\ loc' = [loc EXCEPT ![t].path = a.path]
            /\ UNCHANGED ret
    /\ UNCHANGED repoVars

CallDelete(t) ==
    \E n \in BoundInputs, q \in PathInputs \cup {EmptyPath} :
        \* with a path the name given is not read
        /\ q # EmptyPath => n \in {EmptyName, NameB}
        /\ DeleteCheck(t, [NoArgs EXCEPT !.op = "Delete", !.name = n, !.path = q])

\* p.Name, err = r.repo.GetName(p.Path)
DeleteGetName(t) ==
    /\ pc[t] = "dl_getname"
    /\ \E n \in GetName(names, loc[t].path) :
          /\ Goto(t, "dl_unpin")
          /\ loc' = [loc EXCEPT ![t].name = n]
    /\ UNCHANGED <<repoVars, args, ret, pre>>

\* pinner.Unpin(path without the package file), when the store is a Pinner
DeleteUnpin(t) ==
    /\ pc[t] = "dl_unpin"
    /\ IF storeKind = "ipfs"
       THEN IF loc[t].path.hash \in pinned
            THEN /\ pinned' = pinned \ {TrimPackageFile(loc[t].path).hash}
                 /\ Goto(t, "dl_delete")
                 /\ UNCHANGED <<ret, loc>>
            ELSE Fail(t, "not pinned") /\ UNCHANGED pinned
       ELSE Goto(t, "dl_delete") /\ UNCHANGED <<pinned, ret, loc>>
    /\ UNCHANGED <<fsrepo, storeKind, names, store, blobs, datasets, now, args, pre>>

\* r.repo.DeleteName(p.Name); *ok = true
DeleteDelete(t) ==
    /\ pc[t] = "dl_delete"
    /\ \E d \in DeleteName(names, loc[t].name) :
          /\ names' = d.ns
          /\ IF d.err # NoErr
             THEN Fail(t, d.err)
             ELSE /\ pc' = [pc EXCEPT ![t] = "done"]
                  /\ ret' = [ret EXCEPT ![t] = [NoRet EXCEPT !.ok = TRUE, !.assigned = TRUE]]
                  /\ loc' = [loc EXCEPT ![t] = NoLoc]
    /\ UNCHANGED <<fsrepo, storeKind, store, blobs, datasets, pinned, now, args, pre>>

Delete(t) ==
    \/ DeleteGetName(t)
    \/ DeleteUnpin(t)
    \/ DeleteDelete(t)

\* ------------------------------------------------------------------------
\* DatasetRequests.AddDataset
\* ------------------------------------------------------------------------

\* only an ipfs store fetches; fs.Fetch(cafs.SourceAny, key); fs.Pin(key, true)
AddFetch(t, a) ==
    /\ Begin(t, a)
    /\ IF storeKind # "ipfs"
       THEN Fail(t, "can only add datasets when running an IPFS filestore")
            /\ UNCHANGED <<store, pinned>>
       ELSE LET key == TrimPackageFile(a.path)
            IN IF key.hash = RemoteHash
               THEN /\ store' = [store EXCEPT ![key.hash] = RemoteDataset]
                    /\ pinned' = pinned \cup {key.hash}
                    /\ Goto(t, "ad_put")
                    /\ loc' = [loc EXCEPT ![t].path = key]
                    /\ UNCHANGED ret
               ELSE Fail(t, "error fetching file") /\ UNCHANGED <<store, pinned>>
    /\ UNCHANGED <<fsrepo, storeKind, names, blobs, datasets, now>>

CallAddDataset(t) ==
    \E n \in NameInputs, h \in {RemoteHash, MissingHash}, f \in BOOLEAN :
        /\ h = MissingHash => (f /\ n = NameA)
        /\ AddFetch(t, [NoArgs EXCEPT !.op = "AddDataset", !.name = n, !.path = MkPath(h, f)])

\* path := key + "/" + dsfs.PackageFileDataset; r.repo.PutName(p.Name, path)
AddPutName(t) ==
    /\ pc[t] = "ad_put"
    /\ LET path == MkPath(loc[t].path.hash, TRUE)
           r == PutName(names, args[t].name, path)
       IN /\ names' = r.ns
          /\ IF r.err # NoErr
             THEN Fail(t, "error putting dataset name in repo")
             ELSE /\ Goto(t, "ad_load")
                  /\ loc' = [loc EXCEPT ![t].path = path]
                  /\ UNCHANGED ret
    /\ UNCHANGED <<fsrepo, storeKind, store, blobs, datasets, pinned, now, args, pre>>

\* ds, err := dsfs.LoadDataset(fs, path); *res = DatasetRef{p.Name, path, ds}
AddLoad(t) ==
    /\ pc[t] = "ad_load"
    /\ \E io \in IOOutcomes :
          LET l == LoadDataset(store, loc[t].path)
          IN IF io # NoErr \/ l.err # NoErr
             THEN Fail(t, "error loading newly saved dataset path")
             ELSE Return(t, MkRef(args[t].name, loc[t].path, l.ds))
    /\ UNCHANGED <<repoVars, args, pre>>

AddDataset(t) ==
    \/ AddPutName(t)
    \/ AddLoad(t)

\* ------------------------------------------------------------------------
\* HistoryRequests.Log
\* ------------------------------------------------------------------------
\* the limits a caller passes: none, negative, and up to more than a history
LimitInputs == (-1)..MaxLimit

\* log, limit and ref as the call starts; the path must not be empty
LogStart(t, a) ==
    /\ Begin(t, a)
    /\ IF a.path = EmptyPath
       THEN Fail(t, "path is required")
       ELSE /\ Goto(t, "lg_loop")
            /\ loc' = [loc EXCEPT ![t].log = << >>, ![t].limit = a.limit,
                                  ![t].path = a.path]
            /\ UNCHANGED ret
    /\ UNCHANGED repoVars

CallLog(t) ==
    \E q \in PathRefInputs \cup {EmptyPath}, l \in LimitInputs :
        LogStart(t, [NoArgs EXCEPT !.op = "Log", !.path = q, !.limit = l])

\* the walk stops on an exhausted limit or on a record with no Previous
LogBreakBelow(limit, ds) == limit <= 0 \/ ds.Previous = EmptyPath

\* the walk stops on an exhausted limit or on a record with no Previous
LogBreak(limit, ds) == limit = 0 \/ ds.Previous = EmptyPath

\* the path of the next record: the cleaned Previous of this one
LogNext(ds) == ds.Previous

\* one turn of a loop that hands its log to the caller when a load fails
LogLoopPartial(t) ==
    /\ pc[t] = "lg_loop"
    /\ \E io \in IOOutcomes :
          LET l == LoadDataset(store, loc[t].path)
              err == IF io # NoErr THEN io ELSE l.err
              log == Append(loc[t].log, MkRef(EmptyName, loc[t].path, l.ds))
              limit == loc[t].limit - 1
          IN IF err # NoErr
             THEN /\ pc' = [pc EXCEPT ![t] = "done"]
                  /\ ret' = [ret EXCEPT ![t] = [NoRet EXCEPT !.err = err, !.assigned = TRUE,
                                                             !.log = loc[t].log]]
                  /\ UNCHANGED loc
             ELSE IF LogBreak(limit, l.ds)
             THEN /\ pc' = [pc EXCEPT ![t] = "done"]
                  /\ ret' = [ret EXCEPT ![t] = [NoRet EXCEPT !.assigned = TRUE, !.log = log]]
                  /\ loc' = [loc EXCEPT ![t] = NoLoc]
             ELSE /\ loc' = [loc EXCEPT ![t].log = log, ![t].limit = limit,
                                        ![t].path = LogNext(l.ds)]
                  /\ UNCHANGED <<pc, ret>>
    /\ UNCHANGED <<repoVars, args, pre>>

\* one turn of the loop: load, append, count down, stop or step back; the
\* log is assigned to the output after the loop only, and a failed load
\* returns before that, dropping the log
LogLoop(t) ==
    /\ pc[t] = "lg_loop"
    /\ \E io \in IOOutcomes :
          LET l == LoadDataset(store, loc[t].path)
              err == IF io # NoErr THEN io ELSE l.err
              log == Append(loc[t].log, MkRef(EmptyName, loc[t].path, l.ds))
              limit == loc[t].limit - 1
          IN IF err # NoErr
             THEN /\ pc' = [pc EXCEPT ![t] = "done"]
                  /\ ret' = [ret EXCEPT ![t] = [NoRet EXCEPT !.err = err]]
                  /\ UNCHANGED loc
             ELSE IF LogBreak(limit, l.ds)
             THEN /\ pc' = [pc EXCEPT ![t] = "done"]
                  /\ ret' = [ret EXCEPT ![t] = [NoRet EXCEPT !.assigned = TRUE, !.log = log]]
                  /\ loc' = [loc EXCEPT ![t] = NoLoc]
             ELSE /\ loc' = [loc EXCEPT ![t].log = log, ![t].limit = limit,
                                        ![t].path = LogNext(l.ds)]
                  /\ UNCHANGED <<pc, ret>>
    /\ UNCHANGED <<repoVars, args, pre>>

\* ------------------------------------------------------------------------
\* Handler constructors and the remote branch of each method
\* ------------------------------------------------------------------------
HandlerKinds == {"DatasetRequests", "HistoryRequests", "PeerRequests"}

PanicBoth(kind) ==
    CASE kind = "DatasetRequests" -> "panic: both repo and client supplied to NewDatasetRequests"
      [] kind = "HistoryRequests" -> "panic: both repo and client supplied to NewHistoryRequests"
      [] kind = "PeerRequests" -> "panic: both node and client supplied to NewPeerRequests"
PanicNil == "panic: nil pointer dereference"

\* a constructor that keeps whatever it is given
NewDatasetRequestsUnchecked(r, cli) ==
    [panic |-> FALSE,
     handler |-> [kind |-> "DatasetRequests", repo |-> r, cli |-> cli]]

\* panics on both; keeps the repo and the client
NewDatasetRequests(r, cli) ==
    IF r /\ cli
    THEN [panic |-> TRUE, handler |-> NoHandler]
    ELSE [panic |-> FALSE,
          handler |-> [kind |-> "DatasetRequests", repo |-> r, cli |-> cli]]

\* panics on both; the struct literal sets repo only
NewHistoryRequests(r, cli) ==
    IF r /\ cli
    THEN [panic |-> TRUE, handler |-> NoHandler]
    ELSE [panic |-> FALSE,
          handler |-> [kind |-> "HistoryRequests", repo |-> r, cli |-> FALSE]]

\* panics on both; keeps the node and the client
NewPeerRequests(node, cli) ==
    IF node /\ cli
    THEN [panic |-> TRUE, handler |-> NoHandler]
    ELSE [panic |-> FALSE,
          handler |-> [kind |-> "PeerRequests", repo |-> node, cli |-> cli]]

New(kind, r, cli) ==
    CASE kind = "DatasetRequests" -> NewDatasetRequests(r, cli)
      [] kind = "HistoryRequests" -> NewHistoryRequests(r, cli)
      [] kind = "PeerRequests" -> NewPeerRequests(r, cli)

\* the constructor alone
DoNew(t, a) ==
    /\ Begin(t, a)
    /\ LET n == New(a.kind, a.repo, a.cli)
       IN IF n.panic
          THEN Fail(t, PanicBoth(a.kind))
          ELSE /\ pc' = [pc EXCEPT ![t] = "done"]
               /\ ret' = [ret EXCEPT ![t] = [NoRet EXCEPT !.handler = n.handler]]
               /\ loc' = [loc EXCEPT ![t] = NoLoc]
    /\ UNCHANGED repoVars

CallNew(t) ==
    \E kind \in HandlerKinds, r \in BOOLEAN, c \in BOOLEAN :
        DoNew(t, [NoArgs EXCEPT !.op = "New", !.kind = kind, !.repo = r, !.cli = c])

\* the methods with a remote branch
Methods(kind) ==
    CASE kind = "DatasetRequests" ->
           {"List", "Get", "InitDataset", "Update", "Rename", "Delete",
            "StructuredData", "AddDataset", "Validate"}
      [] kind = "HistoryRequests" -> {"Log"}
      [] kind = "PeerRequests" ->
           {"List", "ConnectedPeers", "ConnectToPeer", "Get", "GetNamespace"}

\* the service method each remote branch names in cli.Call
RemoteMethod(kind, m) ==
    IF kind = "DatasetRequests" /\ m = "Delete"
    THEN <<"DatasetRequests", "List">>
    ELSE <<kind, m>>

\* what the caller passed, as the remote side receives it
Params(a) == [name |-> a.name, path |-> a.path, limit |-> a.limit]

\* what the remote side answers: an error, or a value for the response
Replies == {[err |-> NoErr, out |-> 1], [err |-> NoErr, out |-> 2],
            [err |-> "remote error", out |-> 0]}

\* return cli.Call(method, p, res)
Forward(t, a, h) ==
    /\ Begin(t, a)
    /\ \E rep \in Replies :
          /\ pc' = [pc EXCEPT ![t] = "done"]
          /\ ret' = [ret EXCEPT ![t] =
                       [NoRet EXCEPT !.err = rep.err, !.handler = h,
                                     !.assigned = (rep.err = NoErr),
                                     !.wire = <<[method |-> RemoteMethod(h.kind, a.op),
                                                 params |-> Params(a),
                                                 reply |-> rep]>>]]
          /\ loc' = [loc EXCEPT ![t] = NoLoc]
    /\ UNCHANGED repoVars

\* a method of a handler whose repo is nil: the first use of the repo panics
NilRepo(t, a) ==
    /\ Begin(t, a)
    /\ IF a.op = "Delete" /\ a.name = EmptyName /\ a.path = EmptyPath
       THEN Fail(t, "either name or path is required")
       ELSE IF a.op = "Log" /\ a.path = EmptyPath
       THEN Fail(t, "path is required")
       ELSE Fail(t, PanicNil)
    /\ UNCHANGED repoVars

\* a handler is built from (a.repo, a.cli) and its method a.op is called
Dispatch(t, a) ==
    LET n == New(a.kind, a.repo, a.cli)
    IN IF n.panic
       THEN Begin(t, a) /\ Fail(t, PanicBoth(a.kind)) /\ UNCHANGED repoVars
       ELSE IF n.handler.cli
       THEN Forward(t, a, n.handler)
       ELSE IF ~n.handler.repo
       THEN NilRepo(t, a)
       ELSE IF a.op = "Delete"
       THEN DeleteCheck(t, a)
       ELSE LogStart(t, a)

\* remote handlers are called on every method; local ones on Delete and Log
CallDispatch(t) ==
    \E kind \in HandlerKinds, r \in BOOLEAN, c \in BOOLEAN :
    \E m \in Methods(kind), n \in {EmptyName, NameA},
       q \in {EmptyPath, SavedPath(storeKind, TestHash)} :
        /\ ~c => \/ kind = "DatasetRequests" /\ m = "Delete"
                 \/ kind = "HistoryRequests"
        /\ Dispatch(t, [NoArgs EXCEPT !.op = m, !.kind = kind, !.repo = r, !.cli = c,
                                      !.name = n, !.path = q])

\* ------------------------------------------------------------------------
\* Pagination: DatasetRequests.List, ListParams.Page, PeerRequests.List
\* ------------------------------------------------------------------------
MaxNames == 27
MaxPeers == 3

\* the page size DatasetRequests.List falls back to
ListDefaultLimit == 25
\* the page size ListParams.Page falls back to
DefaultPageSize == 100

\* the limits and offsets a caller passes
ListLimitInputs == {-1, 0, 1, 2, ListDefaultLimit, ListDefaultLimit + 1}
ListOffsetInputs == {-DefaultPageSize, -1, 0, 1, 2}

\* the bindings in the order they were made: the callers of this section
\* bind longer and longer names
RECURSIVE OrderedNames(_)
OrderedNames(ns) ==
    IF ns = {} THEN << >>
    ELSE LET b == CHOOSE x \in ns : \A y \in ns : Len(x[1]) <= Len(y[1])
         IN <<b>> \o OrderedNames(ns \ {b})

\* the entries first..last of a sequence, none when the range is empty
Slice(s, first, last) ==
    IF first > last THEN << >> ELSE SubSeq(s, first, last)

\* the DatasetRefs of a page of bindings
RECURSIVE ResolveRefs(_, _)
ResolveRefs(page, st) ==
    IF page = << >> THEN << >>
    ELSE <<MkRef(Head(page)[1], Head(page)[2], LoadDataset(st, Head(page)[2]).ds)>>
         \o ResolveRefs(Tail(page), st)

\* Namespace(limit, offset): a page of the bindings, each one a DatasetRef
\* with its record when the record can be loaded
Namespace(ns, st, limit, offset) ==
    LET all == OrderedNames(ns)
        last == IF offset + limit < Len(all) THEN offset + limit ELSE Len(all)
    IN ResolveRefs(Slice(all, offset + 1, last), st)

\* a List that passes the caller's limit on as it is
ListLimitRaw(limit) == limit

\* if p.Limit <= 0 { p.Limit = 25 }
ListLimit(limit) == IF limit <= 0 THEN ListDefaultLimit ELSE limit
\* if p.Offset < 0 { p.Offset = 0 }
ListOffset(offset) == IF offset < 0 THEN 0 ELSE offset

\* a load that is not tried again
ListLoadEntryNoRetry(first, second) == first

\* ds, err := LoadDataset(...); if err != nil { ds, err = LoadDataset(...) }:
\* the error left after a first load and, when that failed, a second one
ListLoadEntry(first, second) == IF first = NoErr THEN NoErr ELSE second

\* DatasetRequests.List: normalise, take the page, load every entry with
\* one more try after a failed load.  A missing record fails both loads; k
\* is the entry whose first load meets an I/O failure (0: none) and io the
\* outcome of its second load.  loads is what was tried, entry by entry.
DoList(t, a) ==
    /\ Begin(t, a)
    /\ \E ion \in IOOutcomes, io \in IOOutcomes, k \in {0, 1, Cardinality(names)} :
       \E replies \in {Namespace(names, store, ListLimit(a.limit), ListOffset(a.offset))} :
          LET limit == ListLimit(a.limit)
              offset == ListOffset(a.offset)
              p == [Limit |-> limit, Offset |-> offset]
              n == IF Len(replies) < limit THEN Len(replies) ELSE limit
              stored(i) == LoadDataset(store, replies[i].Path).err
              first(i) == IF stored(i) # NoErr THEN stored(i)
                          ELSE IF i = k THEN ErrIO ELSE NoErr
              second(i) == IF stored(i) # NoErr THEN stored(i)
                           ELSE IF i = k THEN io ELSE NoErr
              loaderr(i) == ListLoadEntry(first(i), second(i))
              failing == {i \in 1..n : loaderr(i) # NoErr}
              m == IF failing = {} THEN n
                   ELSE CHOOSE i \in failing : \A j \in failing : i <= j
          IN /\ pc' = [pc EXCEPT ![t] = "done"]
             /\ loc' = [loc EXCEPT ![t] = NoLoc]
             /\ IF ion # NoErr
                THEN ret' = [ret EXCEPT ![t] =
                               [NoRet EXCEPT !.err = "error getting namespace", !.params = p]]
                ELSE \E loads \in {SubSeq([i \in 1..n |->
                                     [first |-> first(i),
                                      second |-> IF first(i) = NoErr THEN "none"
                                                 ELSE second(i)]], 1, m)} :
                     IF failing # {}
                     THEN ret' = [ret EXCEPT ![t] =
                                    [NoRet EXCEPT !.err = "error loading path", !.params = p,
                                                  !.loads = loads]]
                     ELSE ret' = [ret EXCEPT ![t] =
                                    [NoRet EXCEPT !.assigned = TRUE, !.params = p,
                                       !.loads = loads,
                                       !.list = [i \in 1..Len(replies) |->
                                          IF i <= n
                                          THEN MkRef(replies[i].Name, replies[i].Path,
                                                     LoadDataset(store, replies[i].Path).ds)
                                          ELSE replies[i]]]]
    /\ UNCHANGED repoVars

CallList(t) ==
    \E l \in ListLimitInputs, o \in ListOffsetInputs :
        DoList(t, [NoArgs EXCEPT !.op = "List", !.limit = l, !.offset = o])

\* the width of an int in bits, scaled down so that its whole range can be
\* passed to the conversions; arithmetic wraps around as the program's does
IntBits == 8
MaxInt == 2 ^ (IntBits - 1) - 1
MinInt == -(2 ^ (IntBits - 1))
Wrap(x) == ((x - MinInt) % (2 ^ IntBits)) + MinInt

\* integer division as the program does it: the quotient is truncated
\* toward zero
GoDiv(a, b) == IF a >= 0 THEN a \div b ELSE -((-a) \div b)

\* ListParams.Page
Page(lp) ==
    LET size == IF lp.Limit <= 0 THEN DefaultPageSize ELSE lp.Limit
    IN [number |-> Wrap(GoDiv(lp.Offset, size) + 1), size |-> size]

\* a conversion that takes pages as 0-indexed
NewListParamsZeroBased(page, pageSize) ==
    LET pg == IF page < 1 THEN 1 ELSE page
        size == IF pageSize <= 0 THEN DefaultPageSize ELSE pageSize
    IN [Limit |-> size, Offset |-> Wrap(pg * size)]

\* NewListParams(orderBy, page, pageSize): pages are 1-indexed
NewListParams(page, pageSize) ==
    LET pg == IF page < 1 THEN 1 ELSE page
        size == IF pageSize <= 0 THEN DefaultPageSize ELSE pageSize
    IN [Limit |-> size, Offset |-> Wrap((pg - 1) * size)]

\* the pages and page sizes a request carries
PageInputs == {MinInt, -1, 0, 1, 2, 3, MaxInt}
PageSizeInputs == {MinInt, -1, 0, 1, 2, 3, DefaultPageSize, MaxInt}

DoNewListParams(t, a) ==
    /\ Begin(t, a)
    /\ pc' = [pc EXCEPT ![t] = "done"]
    /\ loc' = [loc EXCEPT ![t] = NoLoc]
    /\ ret' = [ret EXCEPT ![t] =
                 [NoRet EXCEPT !.assigned = TRUE,
                               !.params = NewListParams(a.page, a.pageSize)]]
    /\ UNCHANGED repoVars

CallNewListParams(t) ==
    \E pg \in PageInputs, size \in PageSizeInputs :
        DoNewListParams(t, [NoArgs EXCEPT !.op = "NewListParams", !.page = pg,
                                         !.pageSize = size])

\* Page() called on the ListParams that NewListParams returned
PageOfResult(t) ==
    /\ pc[t] = "done" /\ args[t].op = "NewListParams"
    /\ ret[t].page = NoPage
    /\ ret' = [ret EXCEPT ![t].page = Page(ret[t].params)]
    /\ UNCHANGED <<repoVars, pc, args, loc, pre>>

DoPage(t, a) ==
    /\ Begin(t, a)
    /\ pc' = [pc EXCEPT ![t] = "done"]
    /\ loc' = [loc EXCEPT ![t] = NoLoc]
    /\ ret' = [ret EXCEPT ![t] =
                 [NoRet EXCEPT !.assigned = TRUE,
                               !.params = [Limit |-> a.limit, Offset |-> a.offset],
                               !.page = Page([Limit |-> a.limit, Offset |-> a.offset])]]
    /\ UNCHANGED repoVars

CallPage(t) ==
    \E l \in ListLimitInputs, o \in ListOffsetInputs :
        DoPage(t, [NoArgs EXCEPT !.op = "Page", !.limit = l, !.offset = o])

\* the peers the node knows, the first of them its own profile
PeerIDs == [i \in 1..MaxPeers |-> i]
UserID == 1
PanicMakeSlice == "panic: makeslice: len out of range"

\* the loop of PeerRequests.List: up to limit peers that are not the user
RECURSIVE PeerReplies(_, _)
PeerReplies(ps, limit) ==
    IF ps = << >> \/ limit <= 0 THEN << >>
    ELSE IF Head(ps) = UserID THEN PeerReplies(Tail(ps), limit)
    ELSE <<Head(ps)>> \o PeerReplies(Tail(ps), limit - 1)

\* a loop that fills every slot it was given
RECURSIVE PeerRepliesPadded(_, _)
PeerRepliesPadded(ps, limit) ==
    IF limit <= 0 THEN << >>
    ELSE IF ps = << >> THEN <<0>> \o PeerRepliesPadded(ps, limit - 1)
    ELSE IF Head(ps) = UserID THEN PeerRepliesPadded(Tail(ps), limit)
    ELSE <<Head(ps)>> \o PeerRepliesPadded(Tail(ps), limit - 1)

\* replies := make(..., p.Limit); the loop; *res = replies[:i]
PeerListResult(ps, limit) == PeerReplies(ps, limit)

\* PeerRequests.List on a peer store that holds ps: make([]*profile.Profile,
\* p.Limit), r.Profile(), repo.QueryPeers, fill, cut
DoPeerList(t, a, ps) ==
    /\ Begin(t, a)
    /\ \E iop \in IOOutcomes, ioq \in IOOutcomes :
          IF a.limit < 0
          THEN Fail(t, PanicMakeSlice)
          ELSE IF iop # NoErr
          THEN Fail(t, "error loading profile")
          ELSE IF ioq # NoErr
          THEN Fail(t, "error querying peers")
          ELSE /\ pc' = [pc EXCEPT ![t] = "done"]
               /\ loc' = [loc EXCEPT ![t] = NoLoc]
               /\ ret' = [ret EXCEPT ![t] =
                            [NoRet EXCEPT !.assigned = TRUE,
                                          !.params = [Limit |-> a.limit, Offset |-> a.offset],
                                          !.peers = ps,
                                          !.list = PeerListResult(ps, a.limit)]]
    /\ UNCHANGED repoVars

CallPeerList(t) ==
    \E l \in ListLimitInputs, o \in ListOffsetInputs :
        DoPeerList(t, [NoArgs EXCEPT !.op = "PeerList", !.limit = l, !.offset = o],
                   PeerIDs)

\* the contents of a peer store: up to MaxPeers profiles, the user's own
\* among them or not, in any order
PeerStores == UNION {[1..n -> 1..MaxPeers] : n \in 0..MaxPeers}

PeersCallList(t) ==
    \E l \in ListLimitInputs, ps \in PeerStores :
        DoPeerList(t, [NoArgs EXCEPT !.op = "PeerList", !.limit = l], ps)

\* the next name of a growing Namestore
NextName(ns) == [i \in 1..(Cardinality(ns) + 1) |-> "a"]

ListCallPutName(t) ==
    /\ Cardinality(names) < MaxNames
    /\ DoPutName(t, [NoArgs EXCEPT !.op = "PutName", !.name = NextName(names),
                            !.path = SavedPath(storeKind, TestHash)])

\* ------------------------------------------------------------------------
\* The file-based repository: Graph
\* ------------------------------------------------------------------------
\* if r.graph == nil
GraphCheck(t, a) ==
    /\ Begin(t, a)
    /\ IF fsrepo.graph = NoGraph THEN Goto(t, "gr_compute") ELSE Goto(t, "gr_return")
    /\ UNCHANGED <<repoVars, ret, loc>>

CallGraph(t) == GraphCheck(t, [NoArgs EXCEPT !.op = "Graph"])

\* nodes, err := repo.Graph(r): a new map each time it succeeds
GraphCompute(t) ==
    /\ pc[t] = "gr_compute"
    /\ \E io \in IOOutcomes :
          IF io # NoErr
          THEN Fail(t, io) /\ UNCHANGED fsrepo
          ELSE /\ fsrepo' = [fsrepo EXCEPT !.computed = fsrepo.computed + 1]
               /\ loc' = [loc EXCEPT ![t].nodes = fsrepo.computed + 1]
               /\ Goto(t, "gr_assign")
               /\ UNCHANGED ret
    /\ UNCHANGED <<storeKind, names, store, blobs, datasets, pinned, now, args, pre>>

\* r.graph = nodes
GraphAssign(t) ==
    /\ pc[t] = "gr_assign"
    /\ fsrepo' = [fsrepo EXCEPT !.graph = loc[t].nodes]
    /\ Goto(t, "gr_return")
    /\ UNCHANGED <<storeKind, names, store, blobs, datasets, pinned, now, args, pre, loc, ret>>

\* return r.graph, nil
GraphReturn(t) ==
    /\ pc[t] = "gr_return"
    /\ pc' = [pc EXCEPT ![t] = "done"]
    /\ ret' = [ret EXCEPT ![t] = [NoRet EXCEPT !.assigned = TRUE, !.graph = fsrepo.graph]]
    /\ loc' = [loc EXCEPT ![t] = NoLoc]
    /\ UNCHANGED <<repoVars, args, pre>>

Graph(t) ==
    \/ GraphCompute(t)
    \/ GraphAssign(t)
    \/ GraphReturn(t)

\* ------------------------------------------------------------------------
\* The file-based repository: NewRepo and the profile file
\* ------------------------------------------------------------------------
NodeIDs == {"QmA", "QmB"}
\* doggos.DoggoNick(id): a nickname made from the identifier
DoggoNick(id) == IF id = "QmA" THEN "doggo_of_QmA" ELSE "doggo_of_QmB"

\* a profile file that holds a profile, and one that does not parse
JsonProfile(id, username) == [file |-> "json", ID |-> id, Username |-> username]
GarbageProfile == [file |-> "garbage", ID |-> "", Username |-> ""]
\* what the profile file can hold before NewRepo runs
ProfileFiles ==
    {NoProfile, GarbageProfile}
    \cup {JsonProfile(id, u) : id \in NodeIDs, u \in {"", "rex", DoggoNick("QmA")}}

\* the file is written, removed or edited between two runs of the program
EditProfile ==
    /\ pc[1] = "idle"
    /\ \E f \in ProfileFiles :
          /\ f # fsrepo.profile
          /\ fsrepo' = [fsrepo EXCEPT !.profile = f]
    /\ UNCHANGED <<storeKind, names, store, blobs, datasets, pinned, now, pc, args, loc, ret, pre>>

\* ensureProfile(bp, id): the error it returns and the file it leaves.
\* ioread is the outcome of reading the file, iosave of writing it.
EnsureProfile(file, id, ioread, iosave) ==
    IF file.file = "none"
    THEN IF iosave # NoErr THEN [err |-> iosave, file |-> file]
         ELSE [err |-> NoErr, file |-> JsonProfile(id, DoggoNick(id))]
    ELSE IF ioread # NoErr THEN [err |-> "error loading profile", file |-> file]
    ELSE IF file.file = "garbage" THEN [err |-> "error unmarshaling profile", file |-> file]
    ELSE IF file.ID # id
    THEN [err |-> NoErr,
          file |-> IF iosave # NoErr THEN file
                   ELSE JsonProfile(id, IF file.Username = "" THEN DoggoNick(id)
                                        ELSE file.Username)]
    ELSE [err |-> NoErr, file |-> file]

\* NewRepo(store, base, id): MkdirAll, ensureProfile, a new Repo
DoNewRepo(t, a) ==
    /\ Begin(t, a)
    /\ \E iomk \in IOOutcomes, ioread \in IOOutcomes, iosave \in IOOutcomes :
          LET e == EnsureProfile(fsrepo.profile, a.id, ioread, iosave)
          IN IF iomk # NoErr
             THEN Fail(t, iomk) /\ UNCHANGED fsrepo
             ELSE IF e.err # NoErr
             THEN Fail(t, e.err) /\ fsrepo' = [fsrepo EXCEPT !.profile = e.file]
             ELSE /\ pc' = [pc EXCEPT ![t] = "done"]
                  /\ ret' = [ret EXCEPT ![t] = [NoRet EXCEPT !.assigned = TRUE]]
                  /\ loc' = [loc EXCEPT ![t] = NoLoc]
                  /\ fsrepo' = [profile |-> e.file, graph |-> NoGraph, computed |-> 0]
    /\ UNCHANGED <<storeKind, names, store, blobs, datasets, pinned, now>>

CallNewRepo(t) ==
    \E id \in NodeIDs : DoNewRepo(t, [NoArgs EXCEPT !.op = "NewRepo", !.id = id])

\* ------------------------------------------------------------------------
\* Dataset names: ValidDatasetName and CoerceDatasetName
\* ------------------------------------------------------------------------
\* longest generated input string
MaxLen == 3

LowerCase == <<"a", "b", "c", "d", "e", "f", "g", "h", "i", "j", "k", "l", "m", "n", "o", "p", "q", "r", "s", "t", "u", "v", "w", "x", "y", "z">>
UpperCase == <<"A", "B", "C", "D", "E", "F", "G", "H", "I", "J", "K", "L", "M", "N", "O", "P", "Q", "R", "S", "T", "U", "V", "W", "X", "Y", "Z">>
DecimalDigits == {"0", "1", "2", "3", "4", "5", "6", "7", "8", "9"}
Space == " "
Hyphen == "-"
Range(f) == {f[i] : i \in DOMAIN f}

\* unicode.ToLower on one character
ToLower(c) ==
    IF c \in Range(UpperCase)
    THEN LowerCase[CHOOSE i \in DOMAIN UpperCase : UpperCase[i] = c]
    ELSE c

\* the characters a dataset name is made of
NameChar(c) == c \in Range(LowerCase) \cup Range(UpperCase) \cup DecimalDigits \cup {Underscore}

\* [A-Za-z0-9_]* matched against the rest of the string
RECURSIVE MatchRest(_)
MatchRest(s) == IF s = << >> THEN TRUE ELSE NameChar(Head(s)) /\ MatchRest(Tail(s))

\* a match that lets a digit start a name
ValidDatasetNameAnyStart(s) == Len(s) > 0 /\ MatchRest(s)

\* ValidDatasetName(s): s matches [A-Za-z_][A-Za-z0-9_]*
ValidDatasetName(s) ==
    /\ Len(s) > 0
    /\ Head(s) \notin DecimalDigits
    /\ MatchRest(s)

\* filepath.Ext: where the extension starts, scanning back from the end to
\* the last dot of the last path element; past the end when there is none
RECURSIVE ExtStart(_, _)
ExtStart(s, i) ==
    IF i < 1 \/ s[i] = Slash THEN Len(s) + 1
    ELSE IF s[i] = Dot THEN i
    ELSE ExtStart(s, i - 1)

StripExt(s) == SubSeq(s, 1, ExtStart(s, Len(s)) - 1)

\* a coercion that lower-cases and leaves illegal characters in place
CoerceKeepIllegal(s) ==
    LET base == StripExt(s)
    IN [i \in 1..Len(base) |-> ToLower(base[i])]

\* CoerceDatasetName(s): strip the extension, lower-case, replace every
\* illegal character with an underscore
CoerceDatasetName(s) ==
    LET base == StripExt(s)
    IN [i \in 1..Len(base) |->
          IF NameChar(base[i]) THEN ToLower(base[i]) ELSE Underscore]

\* the names TestValidDatasetName accepts and rejects
TestValidNames == {<<"n", "a", "m", "e">>,
                   <<"u", "n", "d", "e", "r", "s", "c", "o", "r", "e", "_", "n", "a", "m", "e">>,
                   <<"U", "n", "d", "e", "r", "s", "c", "o", "r", "e", "_", "n", "a", "m", "E">>,
                   <<"C", "A", "P", "S", "N", "A", "M", "E">>}
TestInvalidNames == {<<"s", "p", "a", "c", "e", " ", "n", "a", "m", "e">>,
                     <<"h", "y", "p", "h", "e", "n", "-", "n", "a", "m", "e">>,
                     <<"d", "o", "t", ".", "n", "a", "m", "e">>,
                     <<"/", "s", "l", "a", "s", "h", "/", "n", "a", "m", "e">>,
                     <<"0", "h", "n", "o", "3", "s">>}
\* the cases of TestCoerceDatasetName: input, expected output
TestCoerceCases == {<<<<"f", "i", "l", "e", "n", "a", "m", "e", ".", "c", "s", "v">>, <<"f", "i", "l", "e", "n", "a", "m", "e">>>>,
                    <<<<"v", "a", "r", "i", "a", "b", "l", "e", "-", "n", "a", "m", "e">>, <<"v", "a", "r", "i", "a", "b", "l", "e", "_", "n", "a", "m", "e">>>>,
                    <<<<"s", "p", "a", "c", "e", " ", "n", "a", "m", "e">>, <<"s", "p", "a", "c", "e", "_", "n", "a", "m", "e">>>>,
                    <<<<"C", "A", "P", "S", "N", "A", "M", "E">>, <<"c", "a", "p", "s", "n", "a", "m", "e">>>>}

\* one of each kind of character
NameAlphabet == {"a", "B", "0", Underscore, Space, Hyphen, Dot, Slash}
\* every string of up to MaxLen of them, and the strings of the tests
StringInputs ==
    UNION {[1..n -> NameAlphabet] : n \in 0..MaxLen}
    \cup TestValidNames \cup TestInvalidNames
    \cup {c[1] : c \in TestCoerceCases}

DoValidDatasetName(t, a) ==
    /\ Begin(t, a)
    /\ pc' = [pc EXCEPT ![t] = "done"]
    /\ loc' = [loc EXCEPT ![t] = NoLoc]
    /\ ret' = [ret EXCEPT ![t] = [NoRet EXCEPT !.assigned = TRUE,
                                               !.ok = ValidDatasetName(a.name)]]
    /\ UNCHANGED repoVars

CallValidDatasetName(t) ==
    \E s \in StringInputs :
        DoValidDatasetName(t, [NoArgs EXCEPT !.op = "ValidDatasetName", !.name = s])

DoCoerceDatasetName(t, a) ==
    /\ Begin(t, a)
    /\ pc' = [pc EXCEPT ![t] = "done"]
    /\ loc' = [loc EXCEPT ![t] = NoLoc]
    /\ ret' = [ret EXCEPT ![t] = [NoRet EXCEPT !.assigned = TRUE,
                                               !.coerced = <<CoerceDatasetName(a.name)>>]]
    /\ UNCHANGED repoVars

CallCoerceDatasetName(t) ==
    \E s \in StringInputs :
        DoCoerceDatasetName(t, [NoArgs EXCEPT !.op = "CoerceDatasetName", !.name = s])

\* CoerceDatasetName called on the name CoerceDatasetName returned
CoerceOfResult(t) ==
    /\ pc[t] = "done" /\ args[t].op = "CoerceDatasetName"
    /\ Len(ret[t].coerced) = 1
    /\ ret' = [ret EXCEPT ![t].coerced = Append(@, CoerceDatasetName(@[1]))]
    /\ UNCHANGED <<repoVars, pc, args, loc, pre>>

\* ------------------------------------------------------------------------
\* Specifications
\* ------------------------------------------------------------------------
\* one caller: handlers run one after the other
Next ==
    \/ CallPutName(1)
    \/ CallDeleteName(1)
    \/ CallRename(1) \/ Rename(1)
    \/ CallUpdate(1) \/ Update(1)
    \/ CallInitDataset(1) \/ InitDataset(1)
    \/ CallDelete(1) \/ Delete(1)
    \/ CallAddDataset(1) \/ AddDataset(1)
    \/ Finish(1)

Spec == Init /\ [][Next]_vars

\* one caller that reaches the repository through the handlers alone
NextHandlers ==
    \/ CallRename(1) \/ Rename(1)
    \/ CallUpdate(1) \/ Update(1)
    \/ CallInitDataset(1) \/ InitDataset(1)
    \/ CallDelete(1) \/ Delete(1)
    \/ CallAddDataset(1) \/ AddDataset(1)
    \/ Finish(1)

SpecHandlers == Init /\ [][NextHandlers]_vars

\* two callers: the steps of their handlers interleave. They rename the
\* test dataset, update it and create a dataset under the new name.
ConcCallRename(t) ==
    \E cur \in {NameA, NameB}, new \in {NameA, NameB} :
        RenameCheck(t, [NoArgs EXCEPT !.op = "Rename", !.name = cur, !.new = new])

ConcCallUpdate(t) ==
    /\ CanCreate
    /\ \/ \E n \in {NameA, NameB} :
             UpdateResolve(t, [NoArgs EXCEPT !.op = "Update", !.byName = TRUE,
                                     !.name = n, !.valid = TRUE])
       \/ \E q \in StoredPaths :
             UpdateResolve(t, [NoArgs EXCEPT !.op = "Update", !.path = q,
                                     !.valid = TRUE])

ConcCallInitDataset(t) ==
    /\ CanCreate
    /\ InitSource(t, [NoArgs EXCEPT !.op = "InitDataset", !.name = NameB,
                             !.fname = NameB \o <<Dot, "c">>, !.src = "data",
                             !.data = <<2>>])

NextConc ==
    \E t \in Threads :
        \/ ConcCallRename(t) \/ Rename(t)
        \/ ConcCallUpdate(t) \/ Update(t)
        \/ ConcCallInitDataset(t) \/ InitDataset(t)
        \/ Finish(t)

SpecConc == Init /\ [][NextConc]_vars

\* one caller that adds a dataset, revises it and reads histories
LogCallUpdate(t) ==
    /\ now < MaxRevs
    /\ UpdateResolve(t, [NoArgs EXCEPT !.op = "Update", !.byName = TRUE,
                                !.name = NameA, !.valid = TRUE])

LogCallAddDataset(t) ==
    AddFetch(t, [NoArgs EXCEPT !.op = "AddDataset", !.name = NameA,
                        !.path = MkPath(RemoteHash, TRUE)])

NextLog ==
    \/ LogCallAddDataset(1) \/ AddDataset(1)
    \/ LogCallUpdate(1) \/ Update(1)
    \/ CallLog(1) \/ LogLoop(1)
    \/ Finish(1)

SpecLog == Init /\ [][NextLog]_vars

\* one caller that builds handlers and calls their methods
NextDispatch ==
    \/ CallNew(1)
    \/ CallDispatch(1)
    \/ Delete(1)
    \/ LogLoop(1)
    \/ Finish(1)

SpecDispatch == Init /\ [][NextDispatch]_vars

\* one caller that creates datasets one after the other, from data
MaxInits == 2

SeqCallInitDataset(t) ==
    /\ now < MaxInits
    /\ \E n \in {EmptyName, NameA, NameB}, d \in {<<1>>, <<2>>} :
          InitSource(t, [NoArgs EXCEPT !.op = "InitDataset", !.name = n,
                                !.fname = NameB \o <<Dot, "c">>, !.src = "data",
                                !.data = d])

NextInit ==
    \/ SeqCallInitDataset(1) \/ InitDataset(1)
    \/ Finish(1)

SpecInit == Init /\ [][NextInit]_vars

\* one caller that binds names and asks for pages
NextList ==
    \/ ListCallPutName(1)
    \/ CallList(1)
    \/ CallPage(1)
    \/ CallPeerList(1)
    \/ Finish(1)

SpecList == Init /\ [][NextList]_vars

\* one caller that converts pages to limits and back
NextParams ==
    \/ CallNewListParams(1)
    \/ PageOfResult(1)
    \/ Finish(1)

SpecParams == Init /\ [][NextParams]_vars

\* one caller that lists the peers of nodes with all kinds of peer stores
NextPeers ==
    \/ PeersCallList(1)
    \/ Finish(1)

SpecPeers == Init /\ [][NextPeers]_vars

\* two callers of Graph() on one repository
NextGraph ==
    \E t \in Threads :
        \/ CallGraph(t) \/ Graph(t)
        \/ Finish(t)

SpecGraph == Init /\ [][NextGraph]_vars

\* a repository directory that is opened again and again
NextProfile ==
    \/ EditProfile
    \/ CallNewRepo(1)
    \/ Finish(1)

SpecProfile == Init /\ [][NextProfile]_vars

\* one caller that checks and coerces names
NextDatasetNames ==
    \/ CallValidDatasetName(1)
    \/ CallCoerceDatasetName(1)
    \/ CoerceOfResult(1)
    \/ Finish(1)

SpecDatasetNames == Init /\ [][NextDatasetNames]_vars

\* ------------------------------------------------------------------------
\* Properties of a single caller (Spec)
\* ------------------------------------------------------------------------
Done(op) == pc[1] = "done" /\ args[1].op = op
Succeeded(op) == Done(op) /\ ret[1].err = NoErr

\* C1: every name in the Namestore is valid and bound to exactly one path,
\* and a PutName on an invalid or already-bound name fails, leaving every
\* binding as it was.
NamestoreUnique ==
    /\ \A b \in names : ValidName(b[1])
    /\ \A b, c \in names : b[1] = c[1] => b = c
    /\ (Done("PutName") /\ (~ValidName(args[1].name) \/ Bound(pre[1], args[1].name)))
          => (ret[1].err # NoErr /\ names = pre[1])

\* a PutName on a taken name failed while two names are bound
NamestoreUniqueWitness ==
    /\ Done("PutName")
    /\ ret[1].err = ErrNameTaken
    /\ Cardinality(names) = 2

RenameTakenFails ==
    (Done("Rename") /\ Bound(pre[1], args[1].new))
        => (ret[1].err # NoErr /\ names = pre[1])

\* a Rename of a bound name to another bound name was refused
RenameTakenWitness ==
    /\ Done("Rename")
    /\ Bound(pre[1], args[1].name)
    /\ Bound(pre[1], args[1].new)
    /\ args[1].name # args[1].new
    /\ ret[1].err = "name already exists"

\* C4: after Rename succeeds New is bound to the path Current had, Current
\* is unbound, the other bindings and their number are unchanged, and the
\* DatasetRef returned carries New and that path.
RenameMovesBinding ==
    Succeeded("Rename") =>
        LET path == GetPath(pre[1], args[1].name).path
        IN /\ <<args[1].name, path>> \in pre[1]
           /\ GetPath(names, args[1].new) = [err |-> NoErr, path |-> path]
           /\ ~Bound(names, args[1].name)
           /\ names \ {<<args[1].new, path>>} = pre[1] \ {<<args[1].name, path>>}
           /\ Cardinality(names) = Cardinality(pre[1])
           /\ ret[1].ref.Name = args[1].new
           /\ ret[1].ref.Path = path

\* a Rename succeeded next to another binding
RenameMovesWitness ==
    /\ Succeeded("Rename")
    /\ Cardinality(names) = 2

\* the previous path of an Update
PrevPath(t) ==
    IF args[t].byName THEN GetPath(pre[t], TrimSlashes(args[t].name)).path
    ELSE args[t].path

\* C6 as stated: after an Update by path q succeeds the record's Previous is
\* q without the package file, and every name q had resolves to the new
\* path and no longer to q.
UpdateRebindsNames ==
    (Succeeded("Update") /\ ~args[1].byName) =>
        /\ ret[1].ref.Dataset.Previous = TrimPackageFile(args[1].path)
        /\ \A n \in NamesOf(pre[1], args[1].path) :
              /\ GetPath(names, n) = [err |-> NoErr, path |-> ret[1].ref.Path]
              /\ ret[1].ref.Path # args[1].path

\* C6 amended: after an Update by path q succeeds the record's Previous is
\* q without the package file; if q had names, one of them is the Name of
\* the DatasetRef returned and resolves to the new path instead of q, and
\* every other binding is as before.
UpdateRebindsOneName ==
    (Succeeded("Update") /\ ~args[1].byName) =>
        LET q == args[1].path
            ref == ret[1].ref
        IN /\ ref.Dataset.Previous = TrimPackageFile(q)
           /\ NamesOf(pre[1], q) = {} => (ref.Name = EmptyName /\ names = pre[1])
           /\ NamesOf(pre[1], q) # {} =>
                 /\ ref.Name \in NamesOf(pre[1], q)
                 /\ ref.Path # q
                 /\ GetPath(names, ref.Name) = [err |-> NoErr, path |-> ref.Path]
                 /\ names = (pre[1] \ {<<ref.Name, q>>}) \cup {<<ref.Name, ref.Path>>}

\* an Update by a path written with its package file rebound the path's name
UpdateRebindsWitness ==
    /\ Succeeded("Update")
    /\ ~args[1].byName
    /\ HasPackageFile(args[1].path)
    /\ NamesOf(pre[1], args[1].path) # {}
    /\ ret[1].ref.Name # EmptyName

\* C8: no step changes the record stored at an existing content path, and a
\* successful Update returns a path other than the previous one, holding the
\* record returned, whose Previous leads back to the previous record.
RecordsImmutable ==
    [][/\ \A h \in AllHashes : store[h] # NoRecord => store'[h] = store[h]
       /\ \A e \in datasets : e \in datasets'
       /\ Succeeded("Update")' =>
             /\ ret'[1].ref.Path.hash # PrevPath(1)'.hash
             /\ LoadDataset(store', ret'[1].ref.Path) = [err |-> NoErr, ds |-> ret'[1].ref.Dataset]
             /\ LoadDataset(store', ret'[1].ref.Dataset.Previous)
                    = LoadDataset(store', PrevPath(1)')
             /\ LoadDataset(store', PrevPath(1)').err = NoErr]_vars

\* an Update of a record that is itself an update succeeded
RecordsImmutableWitness ==
    /\ Succeeded("Update")
    /\ LoadDataset(store, PrevPath(1)).err = NoErr
    /\ Cardinality({h \in AllHashes : store[h] # NoRecord}) >= 2

\* ------------------------------------------------------------------------
\* Properties of interleaved callers (SpecConc)
\* ------------------------------------------------------------------------
\* C5: in every state of a Rename that has looked up Current, between its
\* steps and next to another call, the path Current was bound to is bound
\* to Current or to New, and it still is when the Rename returns an error.
RenameAtomic ==
    /\ [](\A t \in Threads :
            (args[t].op = "Rename" /\ pc[t] \in {"rn_delete", "rn_put", "rn_load"})
               => \E n \in {args[t].name, args[t].new} : <<n, loc[t].path>> \in names)
    /\ [][\A t \in Threads :
            (/\ args[t].op = "Rename"
             /\ pc[t] \in {"rn_delete", "rn_put", "rn_load"}
             /\ pc'[t] = "done" /\ ret'[t].err # NoErr)
               => \E n \in {args[t].name, args[t].new} : <<n, loc[t].path>> \in names']_vars

\* C7: in every state of an Update that has saved the new record of a named
\* dataset, the name is bound to the previous path or to the new path, and
\* it still is when the Update returns, with success or with an error.
UpdateAtomic ==
    /\ [](\A t \in Threads :
            (args[t].op = "Update" /\ pc[t] \in {"up_delete", "up_put"})
               => \E b \in names : /\ b[1] = TrimSlashes(loc[t].name)
                                   /\ b[2] \in {PrevPath(t), loc[t].path})
    /\ [][\A t \in Threads :
            (/\ args[t].op = "Update"
             /\ pc[t] \in {"up_delete", "up_put"}
             /\ pc'[t] = "done")
               => \E b \in names' : /\ b[1] = TrimSlashes(loc[t].name)
                                    /\ b[2] \in {PrevPath(t), loc[t].path}]_vars

\* ------------------------------------------------------------------------
\* Properties of the history walk (SpecLog)
\* ------------------------------------------------------------------------
\* the records met from path p by following Previous, newest first
RECURSIVE History(_, _, _)
History(st, p, fuel) ==
    LET l == LoadDataset(st, p)
    IN IF fuel = 0 \/ l.err # NoErr THEN << >>
       ELSE <<MkRef(EmptyName, p, l.ds)>>
               \o (IF l.ds.Previous = EmptyPath THEN << >>
                   ELSE History(st, l.ds.Previous, fuel - 1))

HistoryOf(p) == History(store, p, Cardinality(AllHashes))
\* the history from p ends in a root record
Rooted(p) ==
    LET h == HistoryOf(p)
    IN Len(h) > 0 /\ h[Len(h)].Dataset.Previous = EmptyPath

Min(a, b) == IF a < b THEN a ELSE b

\* C9: a Log that succeeds on a path with a history of n records returns
\* the first min(L, n) of them, newest first, for a Limit L > 0, all n for
\* Limit 0, and one record when the path holds a root record.
LogReturnsHistory ==
    (Succeeded("Log") /\ Rooted(args[1].path)) =>
        LET h == HistoryOf(args[1].path)
            L == args[1].limit
        IN /\ L > 0 => ret[1].log = SubSeq(h, 1, Min(L, Len(h)))
           /\ L = 0 => ret[1].log = h
           /\ h[1].Dataset.Previous = EmptyPath => Len(ret[1].log) = 1
           /\ ret[1].assigned

\* a Log with Limit 2 on a history of three or more records returned two
LogReturnsHistoryWitness ==
    /\ Succeeded("Log")
    /\ args[1].limit = 2
    /\ Len(HistoryOf(args[1].path)) >= 3
    /\ Len(ret[1].log) = 2

\* C10: a Log with an empty path fails with the path-required error; a Log
\* whose walk meets a record that does not load fails; and a Log that fails
\* assigns nothing to the caller's output, whatever it had walked.
LogFailsWhole ==
    Done("Log") =>
        /\ args[1].path = EmptyPath => ret[1].err = "path is required"
        /\ (args[1].path # EmptyPath /\ ~Rooted(args[1].path)
               /\ (args[1].limit <= 0 \/ args[1].limit > Len(HistoryOf(args[1].path))))
              => ret[1].err = ErrNotFound \/ ret[1].err = ErrIO
        /\ ret[1].err # NoErr => (~ret[1].assigned /\ ret[1].log = << >>)

\* a Log failed on a load after it had walked two records
LogFailsWholeWitness ==
    /\ Done("Log")
    /\ ret[1].err = ErrIO
    /\ Len(loc[1].log) = 2
    /\ ~ret[1].assigned

\* ------------------------------------------------------------------------
\* Properties of handler construction and remote dispatch (SpecDispatch)
\* ------------------------------------------------------------------------

\* C11: a constructor given both a repo (or node) and a client panics, and
\* no handler that was built holds both.
ConstructorsExclusive ==
    /\ pc[1] = "done" /\ args[1].repo /\ args[1].cli =>
          /\ ret[1].err = PanicBoth(args[1].kind)
          /\ ret[1].handler = NoHandler
    /\ ~(ret[1].handler.repo /\ ret[1].handler.cli)
    /\ Done("New") /\ ~(args[1].repo /\ args[1].cli) =>
          /\ ret[1].err = NoErr
          /\ ret[1].handler.kind = args[1].kind

ConstructorsExclusiveWitness ==
    /\ Done("New")
    /\ args[1].kind = "DatasetRequests" /\ args[1].repo /\ args[1].cli
    /\ ret[1].err = PanicBoth("DatasetRequests")

\* C12: a DatasetRequests method of a handler built with a client is
\* forwarded once to the remote method of the same name, with the caller's
\* parameters, and returns the remote result unchanged.
RemoteForwardsSameMethod ==
    /\ pc[1] = "done"
    /\ args[1].kind = "DatasetRequests" /\ args[1].cli /\ ~args[1].repo
    /\ args[1].op \in {"List", "Get", "InitDataset", "Update", "Rename", "Delete",
                       "StructuredData", "AddDataset"}
    => /\ Len(ret[1].wire) = 1
       /\ ret[1].wire[1].method = <<"DatasetRequests", args[1].op>>
       /\ ret[1].wire[1].params = Params(args[1])
       /\ ret[1].err = ret[1].wire[1].reply.err

\* C13: a HistoryRequests built with a client and no repo keeps the client,
\* and its Log is forwarded to the remote HistoryRequests.Log.
HistoryKeepsClient ==
    /\ Done("New") /\ args[1].kind = "HistoryRequests" /\ args[1].cli /\ ~args[1].repo =>
          ret[1].handler.cli
    /\ Done("Log") /\ args[1].kind = "HistoryRequests" /\ args[1].cli /\ ~args[1].repo =>
          /\ Len(ret[1].wire) = 1
          /\ ret[1].wire[1].method = <<"HistoryRequests", "Log">>

\* ------------------------------------------------------------------------
\* Properties of Delete (Spec)
\* ------------------------------------------------------------------------
\* the bindings a Delete call is aimed at, as the call started
DeleteTargets(t) ==
    IF args[t].path = EmptyPath
    THEN {b \in pre[t] : b[1] = args[t].name}
    ELSE {b \in pre[t] : b[2] = args[t].path}

\* C14: Delete with neither name nor path fails with 'either name or path
\* is required'; Delete of a name or a path that has no binding fails with
\* not-found; in both cases no binding is removed, nothing is unpinned and
\* the flag stays false.
DeleteFailsClean ==
    /\ [](Done("Delete") /\ DeleteTargets(1) = {} =>
            /\ ret[1].err = IF args[1].name = EmptyName /\ args[1].path = EmptyPath
                            THEN "either name or path is required"
                            ELSE ErrNotFound
            /\ ~ret[1].ok
            /\ names = pre[1])
    /\ [][args[1].op = "Delete" /\ DeleteTargets(1) = {} =>
            pinned' = pinned /\ names' = names]_vars

\* C15: after Delete succeeds the binding of the dataset it was given (by
\* name, or by path) is gone and every other binding is unchanged, the
\* content is unpinned when the store pins, and the flag is true; the flag
\* is true only when a binding was removed.
DeleteRemovesBinding ==
    /\ Succeeded("Delete") =>
          /\ ret[1].ok
          /\ \E b \in DeleteTargets(1) : names = pre[1] \ {b}
          /\ storeKind = "ipfs" =>
                \A b \in DeleteTargets(1) : TrimPackageFile(b[2]).hash \notin pinned
    /\ Done("Delete") /\ ret[1].ok => names # pre[1]

\* ------------------------------------------------------------------------
\* Properties of InitDataset (Spec, SpecInit)
\* ------------------------------------------------------------------------
InitStageErrors ==
    {"either a file or a url is required to create a dataset", ErrInvalidName,
     "error detecting format extension", "invalid data format",
     "error determining dataset schema", "invalid structure"}

InitErrorLeavesNames ==
    Done("InitDataset") /\ ret[1].err # NoErr => names = pre[1]

ExpectedPage(limit, offset) ==
    LET all == OrderedNames(names)
    IN Slice(all, offset + 1, Min(offset + limit, Len(all)))

\* C19: DatasetRequests.List with Limit <= 0 behaves as with Limit = 25 and
\* with Offset < 0 as with Offset = 0: it fails only when the namespace or a
\* dataset cannot be read, returns the page of at most Limit entries that
\* starts at Offset, and every entry carries its loaded record.
ListNormalises ==
    Done("List") =>
       LET lim == IF args[1].limit <= 0 THEN ListDefaultLimit ELSE args[1].limit
           off == IF args[1].offset < 0 THEN 0 ELSE args[1].offset
           expect == ExpectedPage(lim, off)
       IN /\ ret[1].err \in {NoErr, "error loading path", "error getting namespace"}
          /\ ret[1].err = "error loading path" => expect # << >>
          /\ ret[1].err = NoErr =>
                /\ Len(ret[1].list) <= lim
                /\ Len(ret[1].list) = Len(expect)
                /\ \A i \in 1..Len(expect) :
                      /\ ret[1].list[i].Name = expect[i][1]
                      /\ ret[1].list[i].Path = expect[i][2]
                      /\ LoadDataset(store, expect[i][2]).err = NoErr
                      /\ ret[1].list[i].Dataset = LoadDataset(store, expect[i][2]).ds

ListNormalisesWitness ==
    /\ Succeeded("List")
    /\ args[1].limit <= 0 /\ args[1].offset < 0
    /\ Cardinality(names) > ListDefaultLimit
    /\ Len(ret[1].list) = ListDefaultLimit

\* C20: for Limit <= 0 or Offset < 0 no paginated entry point fails or
\* panics, ListParams.Page gives a page number of at least 1, and Page,
\* DatasetRequests.List and PeerRequests.List use the same default page
\* size and take a negative Offset as zero.
PaginationDefaults ==
    /\ pc[1] = "done" /\ args[1].op \in {"Page", "List", "PeerList"}
    /\ (args[1].limit <= 0 \/ args[1].offset < 0)
    => LET lp == [Limit |-> args[1].limit, Offset |-> args[1].offset]
       IN /\ ret[1].err # PanicMakeSlice
          /\ args[1].op = "Page" =>
                /\ ret[1].page.number >= 1
                /\ args[1].limit <= 0 => ret[1].page.size = DefaultPageSize
          /\ args[1].op = "List" =>
                /\ ret[1].params.Limit = Page(lp).size
                /\ ret[1].params.Offset >= 0
          /\ args[1].op = "PeerList" /\ ret[1].err = NoErr =>
                ret[1].list = PeerReplies(PeerIDs, Page(lp).size)

\* ------------------------------------------------------------------------
\* Properties of the page conversions (SpecParams)
\* ------------------------------------------------------------------------
PageConverted == Done("NewListParams") /\ ret[1].page # NoPage

\* C21: for page >= 1 and pageSize > 0, NewListParams gives Limit =
\* pageSize and Offset = (page - 1) * pageSize, and Page() on the result
\* gives back page and pageSize; page < 1 counts as page 1 and pageSize <= 0
\* as the default page size.
PageRoundTrip ==
    /\ Done("NewListParams") /\ args[1].page >= 1 /\ args[1].pageSize > 0 =>
          /\ ret[1].params.Limit = args[1].pageSize
          /\ ret[1].params.Offset = (args[1].page - 1) * args[1].pageSize
    /\ PageConverted /\ args[1].page >= 1 /\ args[1].pageSize > 0 =>
          /\ ret[1].page.number = args[1].page
          /\ ret[1].page.size = args[1].pageSize
    /\ Done("NewListParams") /\ args[1].page < 1 =>
          ret[1].params = NewListParams(1, args[1].pageSize)
    /\ Done("NewListParams") /\ args[1].pageSize <= 0 =>
          ret[1].params = NewListParams(args[1].page, DefaultPageSize)

\* C21 holds when the offset (page - 1) * pageSize is in the range of an int
PageRoundTripInRange ==
    LET pg == IF args[1].page < 1 THEN 1 ELSE args[1].page
        size == IF args[1].pageSize <= 0 THEN DefaultPageSize ELSE args[1].pageSize
    IN /\ Done("NewListParams") =>
             /\ ret[1].params.Limit = size
             /\ (pg - 1) * size <= MaxInt => ret[1].params.Offset = (pg - 1) * size
       /\ PageConverted /\ (pg - 1) * size <= MaxInt =>
             /\ ret[1].page.number = pg
             /\ ret[1].page.size = size

PageRoundTripWitness ==
    /\ PageConverted
    /\ args[1].page = 3 /\ args[1].pageSize = 2
    /\ ret[1].params = [Limit |-> 2, Offset |-> 4]
    /\ ret[1].page = [number |-> 3, size |-> 2]

\* ------------------------------------------------------------------------
\* Properties of the loads of List and of PeerRequests.List
\* ------------------------------------------------------------------------
\* the error an entry of List is left with after its loads
FinalLoad(l) == IF l.first = NoErr THEN NoErr ELSE l.second

\* C22: List loads each entry at most twice, the second time only after a
\* failed first load; a failure followed by a successful retry does not
\* fail the call; two failures for one entry fail the whole call there and
\* leave the output unassigned.
ListRetriesOnce ==
    Done("List") /\ ret[1].err # "error getting namespace" =>
       LET loads == ret[1].loads
       IN /\ \A i \in 1..Len(loads) :
                loads[i].second # "none" <=> loads[i].first # NoErr
          /\ ret[1].err = NoErr <=> \A i \in 1..Len(loads) : FinalLoad(loads[i]) = NoErr
          /\ ret[1].err = NoErr => Len(loads) = Len(ret[1].list) /\ ret[1].assigned
          /\ ret[1].err # NoErr =>
                /\ ret[1].err = "error loading path"
                /\ ~ret[1].assigned /\ ret[1].list = << >>
                /\ \A i \in 1..Len(loads) :
                      FinalLoad(loads[i]) # NoErr <=> i = Len(loads)

ListRetriesOnceWitness ==
    /\ Succeeded("List")
    /\ Len(ret[1].list) > 1
    /\ \E i \in 1..Len(ret[1].loads) :
          ret[1].loads[i].first # NoErr /\ ret[1].loads[i].second = NoErr

\* s is t with some entries left out
RECURSIVE IsSubSeq(_, _)
IsSubSeq(s, t) ==
    IF s = << >> THEN TRUE
    ELSE IF t = << >> THEN FALSE
    ELSE IF Head(s) = Head(t) THEN IsSubSeq(Tail(s), Tail(t))
    ELSE IsSubSeq(s, Tail(t))

\* C23: PeerRequests.List returns at most Limit profiles, none of them the
\* local profile, each of them a profile of the peer store, whatever the
\* peer store holds.
PeerListCapped ==
    Succeeded("PeerList") =>
       /\ Len(ret[1].list) <= args[1].limit
       /\ \A i \in 1..Len(ret[1].list) :
             /\ ret[1].list[i] # UserID
             /\ \E j \in 1..Len(ret[1].peers) : ret[1].peers[j] = ret[1].list[i]
       /\ IsSubSeq(ret[1].list, ret[1].peers)

PeerListCappedWitness ==
    /\ Succeeded("PeerList")
    /\ args[1].limit = 2
    /\ Len(ret[1].peers) = 3 /\ ret[1].peers[2] = UserID
    /\ Len(ret[1].list) = 2

\* ------------------------------------------------------------------------
\* Properties of the file-based repository (SpecGraph, SpecProfile)
\* ------------------------------------------------------------------------
\* C24: when several callers run Graph() on a repository whose graph has
\* not been computed, the graph is computed at most once and every caller
\* receives the same map.
GraphComputedOnce ==
    /\ fsrepo.computed <= 1
    /\ \A t1 \in Threads, t2 \in Threads :
          /\ pc[t1] = "done" /\ args[t1].op = "Graph" /\ ret[t1].err = NoErr
          /\ pc[t2] = "done" /\ args[t2].op = "Graph" /\ ret[t2].err = NoErr
          => ret[t1].graph = ret[t2].graph

\* C25: after NewRepo(store, base, id) succeeds the profile file holds a
\* profile whose ID is id and whose Username is not empty, whatever the
\* file held before.
NewRepoEnsuresProfile ==
    Succeeded("NewRepo") =>
       /\ fsrepo.profile.file = "json"
       /\ fsrepo.profile.ID = args[1].id
       /\ fsrepo.profile.Username # ""

\* ------------------------------------------------------------------------
\* Properties of dataset names (SpecDatasetNames)
\* ------------------------------------------------------------------------
Contains(s, c) == \E i \in 1..Len(s) : s[i] = c

\* C26: ValidDatasetName(s) is true exactly when s is not empty, holds only
\* letters, digits and underscores, and does not start with a digit; it
\* accepts the names its test accepts and rejects every name with a space,
\* a hyphen, a dot or a slash, or that starts with a digit.
ValidDatasetNameRule ==
    Done("ValidDatasetName") =>
       LET s == args[1].name
           letters == Range(LowerCase) \cup Range(UpperCase)
       IN /\ ret[1].ok <=>
                /\ s # << >>
                /\ \A i \in 1..Len(s) : s[i] \in letters \cup DecimalDigits \cup {"_"}
                /\ s[1] \notin DecimalDigits
          /\ s \in TestValidNames => ret[1].ok
          /\ s \in TestInvalidNames => ~ret[1].ok
          /\ (\E c \in {" ", "-", ".", "/"} : Contains(s, c)) => ~ret[1].ok
          /\ (s # << >> /\ s[1] \in DecimalDigits) => ~ret[1].ok

\* a name that starts with a digit was rejected
ValidDatasetNameRuleWitness ==
    /\ Done("ValidDatasetName")
    /\ args[1].name = <<"0", "a", "B">>
    /\ ~ret[1].ok

\* C27: CoerceDatasetName is idempotent, Coerce(Coerce(x)) = Coerce(x); its
\* result is x without its extension, in lower case, with an underscore in
\* the place of every illegal character.
CoerceIdempotent ==
    Done("CoerceDatasetName") =>
       LET x == args[1].name
           out == ret[1].coerced
       IN /\ Len(out) = 2 => out[2] = out[1]
          /\ Len(out) >= 1 =>
                /\ \A i \in 1..Len(out[1]) :
                      out[1][i] \in Range(LowerCase) \cup DecimalDigits \cup {"_"}
                /\ \A c \in TestCoerceCases : x = c[1] => out[1] = c[2]
                /\ (~Contains(x, ".")) => Len(out[1]) = Len(x)

\* a name with an extension and an illegal character was coerced twice
CoerceIdempotentWitness ==
    /\ Done("CoerceDatasetName")
    /\ args[1].name = <<"B", "-", ".">>
    /\ ret[1].coerced = << <<"b", "_">>, <<"b", "_">> >>

\* ------------------------------------------------------------------------
\* Properties of the data and the names of new revisions (Spec)
\* ------------------------------------------------------------------------
\* C28: when Update is given new data bytes D, the data reference of the new
\* record addresses a blob of the store whose content is D, and the length
\* the record holds is the size of D.
UpdateStoresData ==
    (Succeeded("Update") /\ args[1].src = "data") =>
       LET ds == ret[1].ref.Dataset
       IN /\ ContentOf(ds.Data) \in blobs
          /\ ContentOf(ds.Data) = args[1].data
          /\ ds.Length = Len(args[1].data)

\* C29: after a successful InitDataset the Name of the returned reference is
\* the name the dataset is bound under, the one supplied or the one derived
\* from the file name, so that GetPath(ref.Name) is ref.Path.
InitReturnsBoundName ==
    Succeeded("InitDataset") =>
       LET g == GetPath(names, ret[1].ref.Name)
       IN g.err = NoErr /\ g.path = ret[1].ref.Path

\* C30: in every state the handlers reach, between calls and after a call
\* that failed part way, every path bound to a name refers to content that
\* is still pinned: Delete leaves no name bound to content it has unpinned.
BoundContentPinned ==
    pc[1] \in {"idle", "done"} =>
       \A b \in names : TrimPackageFile(b[2]).hash \in pinned

====
